---- MODULE Spec2Model ----
(***************************************************************************)
(* The session manager of the browser server (src/test-session-demo.js,    *)
(* lines 347-855: browser-server.js) as a state machine.                   *)
(*                                                                         *)
(* The server runs on one event loop: a handler runs without interruption  *)
(* from one await of a browser primitive (launch, newPage, page.close,     *)
(* browser.close, goto, title) to the next.  Each action below is one such *)
(* run: the arrival of a request or the firing of the timer up to the      *)
(* first await, or the completion of an awaited primitive up to the next   *)
(* await or the end of the handler.  An await of an async function that    *)
(* returns without awaiting a primitive does not let another handler run.  *)
(***************************************************************************)
EXTENDS Integers, Sequences, FiniteSets, TLC

(***************************************************************************)
(* Bounds.  MAX_SESSIONS and SESSION_TIMEOUT_MS stand for the entries of   *)
(* CONFIG (src/test-session-demo.js:366-367, 5 sessions and 300000 ms);    *)
(* the code reads them as parameters and the model scales them down.       *)
(***************************************************************************)
MAX_SESSIONS == 2
SESSION_TIMEOUT_MS == 1
\* session ids that randomUUID hands out over a run
NumIds == 3
\* the last value of the clock (Date.now())
MaxTime == 2
\* handlers (requests, timer callbacks) that can be in flight together
NumTasks == 3
\* handlers started over a run, when they run concurrently
MaxHandlers == 4
\* handlers started over a run, when they run one after the other
MaxSeqHandlers == 6
\* handlers in flight together, and started over a run, next to the MCP server
NumMcpTasks == 2
MaxMcpHandlers == 5
\* handlers in flight together, and started over a run, with every route
NumPageTasks == 2
MaxPageHandlers == 4
\* handlers started over a run with every route, one after the other
MaxPageSeqHandlers == 5
\* handlers in flight together, and started over a run, when closes settle
NumFairTasks == 2
MaxFairHandlers == 3
\* handlers in flight together, and requests started over a run, next to a
\* timer that keeps firing
NumExpiryTasks == 2
MaxExpiryHandlers == 2
\* requests started over a run of creates, info and list requests, one
\* after the other, next to a timer that keeps firing
MaxActivityHandlers == 4
\* requests the MCP server sends over a run that begins with its start-up
MaxBootHandlers == 4
\* tokens after the port of a URL handed to maybeConvertToFileUrl
MaxPathLen == 4
\* the characters the content route returns at most (10000 in the source,
\* line 762), and the length of the longest page
ContentLimit == 3
MaxDocLen == 5
\* requests started over a run of content requests, one after the other
MaxContentHandlers == 2
\* process ids of the Alpine container
MaxPid == 3

Ids == 1..NumIds
Tasks == 1..NumTasks
\* metadata of a create request; an ephemeral session is created with
\* { temporary: true }, src/index.js:359
Metadatas == {"agent"}
Urls == {"u1", "u2"}

VARIABLES
    sessions,         \* the Map `sessions`: its keys in insertion order
    heap,             \* the SessionData objects, by the id they were created with
    now,              \* Date.now()
    tasks,            \* the handlers in flight: kind, position, locals, response
    nextId,           \* the next id randomUUID returns
    cleanupInterval,  \* "set" | "cleared": the setInterval timer
    unhandled,        \* a timer callback ended with an error nobody caught
    exited,           \* process.exit(0) was called
    reply,            \* the response sent in the last step, if any
    mcp,              \* the MCP server's tool-call handler (src/index.js)
    slots,            \* how many handlers the environment keeps in flight together
    budget,           \* how many more handlers the environment starts
    boot,             \* the MCP server's start-up (main, src/index.js), and
                      \* whether the browser server process is running
    conv,             \* a call of maybeConvertToFileUrl: argument and results
    doc,              \* what page.content() returns: the page's full HTML
    daemon            \* the daemon-manager script, the PID file and the
                      \* processes of the Alpine container

vars == <<sessions, heap, now, tasks, nextId, cleanupInterval, unhandled, exited,
          reply, mcp, slots, budget, boot, conv, doc, daemon>>

----------------------------------------------------------------------------
(* Data *)

NoSession ==
    [id |-> 0, browser |-> "none", closeCalls |-> 0, pages |-> <<>>,
     lastAccessed |-> 0, currentUrl |-> "null", metadata |-> "none"]

\* A response: the status, and of the body the fields the properties read.
\* idleTime holds the idleTime of the info response, or those of the list
\* response in the Map's order; content and contentLength are those of the
\* content response.
NoResp ==
    [status |-> 0, success |-> FALSE, error |-> "none", limit |-> 0, sessionId |-> 0,
     currentUrl |-> "null", idleTime |-> <<>>, content |-> <<>>,
     contentLength |-> 0]

IdleTask ==
    [kind |-> "idle", pc |-> "idle", sid |-> 0, newId |-> 0, md |-> "none",
     now |-> 0, expiredSessions |-> <<>>, ei |-> 0, idx |-> 0, url |-> "null",
     url0 |-> "null", client |-> "none"]

NoReply == [kind |-> "none", sid |-> 0, resp |-> NoResp]

\* The tool-call handler at rest.  created is the id of the session the
\* server made for the call's create request, deleteSent the id the call
\* sent a DELETE for (0: none).
\* the HTML of a page that shows about:blank, at the model's scale
BlankDoc == <<"a">>

Pids == 1..MaxPid

\* The daemon-manager script at rest, before any command: no PID file
\* (PID_FILE 0), no process.  procs tells of every pid whether it is free,
\* a browser server the script started ("server") or another process
\* ("other"); status and msg are the exit status and the last message of
\* the last command; Action is the script's ACTION, "none" between commands.
NoDaemon ==
    [PID_FILE |-> 0, procs |-> [p \in Pids |-> "free"], Action |-> "none",
     pc |-> "none", PID |-> 0, status |-> 0, msg |-> "none"]

McpIdle ==
    [pc |-> "idle", tool |-> "none", temp |-> FALSE, step |-> "none",
     active |-> 0, resp |-> NoResp, opOk |-> FALSE, created |-> 0,
     deleteSent |-> 0, isError |-> FALSE]

\* Map.has / Map.delete / Map.set on the key sequence
Has(S, k) == \E i \in 1..Len(S) : S[i] = k
MapDelete(S, k) == SelectSeq(S, LAMBDA x : x # k)
MapSet(S, k) == IF Has(S, k) THEN S ELSE Append(S, k)
Keys(S) == {S[i] : i \in 1..Len(S)}

\* The state a handler reads and writes, as one record.
World ==
    [sessions |-> sessions, heap |-> heap, now |-> now, tasks |-> tasks,
     nextId |-> nextId, cleanupInterval |-> cleanupInterval,
     unhandled |-> unhandled, exited |-> exited, reply |-> NoReply,
     mcp |-> mcp, budget |-> budget]

\* A record that is out of the Map and that no handler in flight holds is
\* garbage: only its browser process, and the calls made to close it, remain.
Referenced(W, id) ==
    \/ Has(W.sessions, id)
    \/ \E t \in Tasks : W.tasks[t].sid = id

Collect(W) ==
    [i \in Ids |->
        IF Referenced(W, i) THEN W.heap[i]
        ELSE [NoSession EXCEPT !.id = W.heap[i].id,
                               !.browser = W.heap[i].browser,
                               !.closeCalls = W.heap[i].closeCalls]]

Apply(W) ==
    /\ sessions' = W.sessions
    /\ heap' = Collect(W)
    /\ tasks' = W.tasks
    /\ nextId' = W.nextId
    /\ cleanupInterval' = W.cleanupInterval
    /\ unhandled' = W.unhandled
    /\ exited' = W.exited
    /\ reply' = W.reply
    /\ mcp' = W.mcp
    /\ budget' = W.budget
    /\ UNCHANGED <<now, slots, boot, conv, doc, daemon>>

----------------------------------------------------------------------------
(* Responses *)

\* res.json(...) / res.status(n).json(...): the response is sent and the
\* handler ends.
Finish(W, t, resp) ==
    LET task == W.tasks[t]
        W1 == [W EXCEPT !.tasks[t] = IdleTask,
                        !.reply = [kind |-> task.kind, sid |-> task.sid,
                                   resp |-> resp]]
    IN  IF task.client = "mcp"
        THEN \* the response is the output of the curl that execSync waits for
             [W1 EXCEPT !.mcp.pc = "got", !.mcp.resp = resp,
                        !.mcp.created = IF task.kind = "create" /\ resp.success
                                        THEN resp.sessionId ELSE @]
        ELSE W1

ErrorResp(status, err) ==
    [NoResp EXCEPT !.status = status, !.error = err,
                   !.limit = IF err = "MaxSessions" THEN MAX_SESSIONS ELSE 0]

\* Throw with no try/catch in the handlers: the error is nobody's
ThrowEscaping(W, t, err) ==
    [W EXCEPT !.tasks[t] = IdleTask, !.unhandled = TRUE]

\* An error leaves the awaited call: the handler's catch answers it; the
\* timer callback and shutdown have no catch.
Throw(W, t, err) ==
    LET kind == W.tasks[t].kind IN
    CASE kind = "info" -> Finish(W, t, ErrorResp(404, err))
      [] kind \in {"sweep", "shutdown"} ->
            [W EXCEPT !.tasks[t] = IdleTask, !.unhandled = TRUE]
      [] OTHER -> Finish(W, t, ErrorResp(500, err))

----------------------------------------------------------------------------
(* createSession, lines 412-440 *)

\* CreateLaunch drawing the lowest id that is not in the Map, in place of a
\* fresh UUID
CreateLaunchReusing(W, t) ==
    [W EXCEPT !.tasks[t].pc = "launch",
              !.tasks[t].newId = CHOOSE i \in Ids :
                                     /\ ~Has(W.sessions, i)
                                     /\ \A j \in 1..(i - 1) : Has(W.sessions, j),
              !.nextId = @ + 1]

\* CreateLaunch with a constant in place of randomUUID()
CreateLaunchFixedId(W, t) ==
    [W EXCEPT !.tasks[t].pc = "launch", !.tasks[t].newId = 1,
              !.nextId = @ + 1]

\* lines 423-424: the id is drawn, puppeteer.launch is called and awaited
CreateLaunch(W, t) ==
    [W EXCEPT !.tasks[t].pc = "launch", !.tasks[t].newId = W.nextId,
              !.nextId = @ + 1]

\* CreateRecheck without lines 418-420: the launch follows the sweep at once
CreateRecheckSkipped(W, t) == CreateLaunch(W, t)

\* CreateRecheck with line 418 comparing against MAX_SESSIONS - 1
CreateRecheckOffByOne(W, t) ==
    IF Len(W.sessions) >= MAX_SESSIONS - 1
    THEN Throw(W, t, "MaxSessions")
    ELSE CreateLaunch(W, t)

\* lines 418-420: the second capacity check, after the sweep
CreateRecheck(W, t) ==
    IF Len(W.sessions) >= MAX_SESSIONS
    THEN Throw(W, t, "MaxSessions")
    ELSE CreateLaunch(W, t)

\* lines 426-439: the launch resolved; the record is built and inserted
CreateInsert(W, t) ==
    LET task == W.tasks[t]
        sessionData ==
            [id |-> task.newId, browser |-> "open", closeCalls |-> 0,
             pages |-> <<>>, lastAccessed |-> W.now, currentUrl |-> "null",
             metadata |-> task.md]
        W1 == [W EXCEPT !.heap[task.newId] = sessionData,
                        !.sessions = MapSet(@, task.newId)]
    IN  Finish(W1, t, [NoResp EXCEPT !.status = 200, !.success = TRUE,
                                      !.sessionId = task.newId])

----------------------------------------------------------------------------
(* destroySession, lines 475-501, and its callers' loops *)

\* DestroyBegin going straight to browser.close(), without the loop of
\* lines 483-489
DestroyBeginSkippingPages(W, t, id) ==
    [W EXCEPT !.tasks[t].pc = "browserClose", !.tasks[t].sid = id,
              !.tasks[t].idx = 0, !.heap[id].closeCalls = @ + 1]

\* lines 481-492 up to the first await: the first page's close is called,
\* or, with no page, the browser's
DestroyBegin(W, t, id) ==
    IF Len(W.heap[id].pages) > 0
    THEN [W EXCEPT !.tasks[t].pc = "pageClose", !.tasks[t].sid = id,
                   !.tasks[t].idx = 1]
    ELSE [W EXCEPT !.tasks[t].pc = "browserClose", !.tasks[t].sid = id,
                   !.tasks[t].idx = 0, !.heap[id].closeCalls = @ + 1]

\* cleanupInterval callback, lines 817-822: the sweep returned
SweepReturn(W, t) ==
    IF W.tasks[t].kind = "create"
    THEN CreateRecheck(W, t)
    ELSE [W EXCEPT !.tasks[t] = IdleTask]

\* lines 517-520: the loop over the collected ids, at index ei.  Line 518
\* reads sessions.get(sessionId).lastAccessed, which throws a TypeError when
\* the id has left the Map since it was collected.
SweepLoop(W, t) ==
    LET task == W.tasks[t] IN
    IF task.ei > Len(task.expiredSessions)
    THEN SweepReturn(W, t)
    ELSE LET sessionId == task.expiredSessions[task.ei] IN
         IF ~Has(W.sessions, sessionId)
         THEN Throw(W, t, "TypeError")
         ELSE DestroyBegin(W, t, sessionId)

\* cleanupExpiredSessions with line 512 reading idleTime >= SESSION_TIMEOUT_MS
cleanupExpiredSessionsAtThreshold(W, t) ==
    LET expired == SelectSeq(W.sessions,
                     LAMBDA k : W.now - W.heap[k].lastAccessed >= SESSION_TIMEOUT_MS)
    IN  SweepLoop([W EXCEPT !.tasks[t].now = W.now,
                            !.tasks[t].expiredSessions = expired,
                            !.tasks[t].ei = 1], t)

\* cleanupExpiredSessions without the test of line 512: every id is collected
cleanupExpiredSessionsAll(W, t) ==
    SweepLoop([W EXCEPT !.tasks[t].now = W.now,
                        !.tasks[t].expiredSessions = W.sessions,
                        !.tasks[t].ei = 1], t)

\* lines 507-515: now is read once and the expired ids are collected in the
\* Map's order; then the loop starts
cleanupExpiredSessions(W, t) ==
    LET expired == SelectSeq(W.sessions,
                     LAMBDA k : W.now - W.heap[k].lastAccessed > SESSION_TIMEOUT_MS)
    IN  SweepLoop([W EXCEPT !.tasks[t].now = W.now,
                            !.tasks[t].expiredSessions = expired,
                            !.tasks[t].ei = 1], t)

\* createSession running the sweep of line 415 whatever the size of the Map
createSessionAlwaysSweeping(W, t) == cleanupExpiredSessions(W, t)

\* lines 412-424 up to the first await
createSession(W, t) ==
    IF Len(W.sessions) >= MAX_SESSIONS
    THEN cleanupExpiredSessions(W, t)
    ELSE CreateLaunch(W, t)

\* shutdown, lines 831-836: the loop over sessionIds (kept in the task's
\* expiredSessions field) at index ei; destroySession of an absent id
\* returns false at once and the loop goes on; then process.exit(0)
RECURSIVE ShutdownLoop(_, _)
ShutdownLoop(W, t) ==
    LET task == W.tasks[t] IN
    IF task.ei > Len(task.expiredSessions)
    THEN [W EXCEPT !.tasks[t] = IdleTask, !.exited = TRUE]
    ELSE LET sessionId == task.expiredSessions[task.ei] IN
         IF ~Has(W.sessions, sessionId)
         THEN ShutdownLoop([W EXCEPT !.tasks[t].ei = @ + 1], t)
         ELSE DestroyBegin(W, t, sessionId)

\* destroySession returned `destroyed` to its caller, which goes on
DestroyReturn(W, t, destroyed) ==
    LET kind == W.tasks[t].kind IN
    CASE kind = "close" ->
            \* lines 778-782
            Finish(W, t, [NoResp EXCEPT !.status = 200, !.success = destroyed])
      [] kind = "shutdown" ->
            ShutdownLoop([W EXCEPT !.tasks[t].ei = @ + 1], t)
      [] OTHER ->
            SweepLoop([W EXCEPT !.tasks[t].ei = @ + 1], t)

\* lines 476-479, then the teardown
destroySession(W, t, sessionId) ==
    IF ~Has(W.sessions, sessionId)
    THEN DestroyReturn(W, t, FALSE)
    ELSE DestroyBegin(W, t, sessionId)

\* PageClosed without the try/catch of lines 481-495: a page close that
\* throws leaves destroySession before line 497
PageClosedAborting(W, t, ok) ==
    LET task == W.tasks[t]
        id == task.sid
        W1 == [W EXCEPT !.heap[id].pages[task.idx] = "closed"]
    IN  IF ~ok
        THEN Throw(W, t, "Primitive")
        ELSE IF task.idx + 1 <= Len(W1.heap[id].pages)
             THEN [W1 EXCEPT !.tasks[t].idx = @ + 1]
             ELSE [W1 EXCEPT !.tasks[t].pc = "browserClose", !.tasks[t].idx = 0,
                             !.heap[id].closeCalls = @ + 1]

\* lines 483-492: page idx's close settled (ok, or it threw and line 487
\* logged it); the next page's close is called, or the browser's
PageClosed(W, t, ok) ==
    LET task == W.tasks[t]
        id == task.sid
        W1 == IF ok THEN [W EXCEPT !.heap[id].pages[task.idx] = "closed"] ELSE W
    IN  IF task.idx + 1 <= Len(W1.heap[id].pages)
        THEN [W1 EXCEPT !.tasks[t].idx = @ + 1]
        ELSE [W1 EXCEPT !.tasks[t].pc = "browserClose", !.tasks[t].idx = 0,
                        !.heap[id].closeCalls = @ + 1]

\* BrowserClosed without the try/catch of lines 481-495: a close that throws
\* leaves destroySession as an error
BrowserClosedUncaught(W, t, ok) ==
    LET id == W.tasks[t].sid IN
    IF ok
    THEN DestroyReturn([W EXCEPT !.heap[id].browser = "closed",
                                 !.heap[id].pages = [i \in 1..Len(@) |-> "closed"],
                                 !.sessions = MapDelete(@, id)], t, TRUE)
    ELSE Throw(W, t, "Primitive")

\* lines 492-500: browser.close() settled (ok, or it threw and line 494
\* logged it); the entry is deleted and destroySession returns true.  A
\* browser that closed takes its pages with it.
BrowserClosed(W, t, ok) ==
    LET id == W.tasks[t].sid
        W1 == IF ok
              THEN [W EXCEPT !.heap[id].browser = "closed",
                             !.heap[id].pages =
                                 [i \in 1..Len(@) |-> "closed"]]
              ELSE W
        W2 == [W1 EXCEPT !.sessions = MapDelete(@, id)]
    IN  DestroyReturn(W2, t, TRUE)

----------------------------------------------------------------------------
(* getSession, lines 445-455, and getCurrentPage, lines 460-470 *)

\* Touch writing a time after the current one
TouchAhead(W, sessionId) ==
    [W EXCEPT !.heap[sessionId].lastAccessed = W.now + 1]

\* Touch writing a time before the current one
TouchBackdated(W, sessionId) ==
    [W EXCEPT !.heap[sessionId].lastAccessed = W.now - 1]

\* Touch without line 452: the record is returned as it is
TouchNothing(W, sessionId) == W

\* getSession on a present id: the touch
Touch(W, sessionId) ==
    [W EXCEPT !.heap[sessionId].lastAccessed = W.now]

\* The page operations: navigate awaits setViewport and goto, writes
\* currentUrl and awaits title (lines 601-606); click awaits the click, reads
\* page.url(), awaits title and writes currentUrl (lines 635-645); content
\* (lines 753-755), screenshot (lines 676-703) and evaluate (lines 726-730)
\* await their primitives and write nothing.
FirstAwait(kind) ==
    CASE kind = "navigate" -> "goto"
      [] kind = "click" -> "click"
      [] OTHER -> "primitives"

\* getCurrentPage without the test of line 461: a page is opened on every call
getCurrentPageAlwaysNew(W, t) == [W EXCEPT !.tasks[t].pc = "newPage"]

\* getCurrentPage up to its await: with no page, newPage is called and
\* awaited; else the last page is taken and the handler awaits its first
\* primitive (setViewport and goto, lines 601-602)
getCurrentPage(W, t) ==
    LET id == W.tasks[t].sid IN
    IF Len(W.heap[id].pages) = 0
    THEN [W EXCEPT !.tasks[t].pc = "newPage"]
    ELSE [W EXCEPT !.tasks[t].pc = FirstAwait(W.tasks[t].kind),
                   !.tasks[t].idx = Len(W.heap[id].pages)]

\* a page operation's handler up to its first await: getSession, whose
\* error the handler's catch answers (lines 614-619), then getCurrentPage
PageOperation(W, t) ==
    LET id == W.tasks[t].sid IN
    IF ~Has(W.sessions, id)
    THEN Throw(W, t, "NotFound")
    ELSE getCurrentPage(
             Touch([W EXCEPT !.tasks[t].url0 = W.heap[id].currentUrl], id), t)

----------------------------------------------------------------------------
(* Actions *)

\* A new handler takes the lowest free slot.
Free(t) ==
    /\ ~exited
    /\ t <= slots
    /\ budget > 0
    /\ tasks[t].kind = "idle"
    /\ \A u \in 1..(t - 1) : tasks[u].kind # "idle"

StartIn(W, t, kind, sid, md, url, client) ==
    [W EXCEPT !.budget = @ - 1, !.tasks[t] =
        [IdleTask EXCEPT !.kind = kind, !.pc = "start", !.sid = sid,
                         !.md = md, !.url = url, !.client = client]]

\* a request of a client other than the MCP server, or the timer, or a signal
Start(t, kind, sid, md, url) == StartIn(World, t, kind, sid, md, url, "ext")

\* creates that have not drawn their id yet
PendingCreates ==
    Cardinality({t \in Tasks : tasks[t].kind = "create"
                               /\ tasks[t].pc \in {"pageClose", "browserClose"}})

\* Date.now() advances
Tick ==
    /\ ~exited
    /\ now < MaxTime
    /\ now' = now + 1
    /\ reply' = NoReply
    /\ UNCHANGED <<sessions, heap, tasks, nextId, cleanupInterval, unhandled,
                   exited, mcp, slots, budget, boot, conv, doc, daemon>>

\* POST /session/create, lines 546-561
CreateRequest(t, md) ==
    /\ Free(t)
    /\ nextId + PendingCreates <= NumIds
    /\ Apply(createSession(Start(t, "create", 0, md, "null"), t))

\* LaunchSettles with the Map entry set before the launch is awaited, so
\* that a launch that fails leaves it behind
LaunchSettlesEntryFirst(t, ok) ==
    /\ ~exited
    /\ tasks[t].pc = "launch"
    /\ Apply(IF ok THEN CreateInsert(World, t)
             ELSE Throw([World EXCEPT !.sessions = MapSet(@, tasks[t].newId),
                                      !.heap[tasks[t].newId].id = tasks[t].newId],
                        t, "Launch"))

\* puppeteer.launch settles: lines 426-439 and 550-554, or the catch of 555
LaunchSettles(t, ok) ==
    /\ ~exited
    /\ tasks[t].pc = "launch"
    /\ Apply(IF ok THEN CreateInsert(World, t) ELSE Throw(World, t, "Launch"))

\* DELETE /session/:id, lines 776-789
CloseRequest(t, id) ==
    /\ Free(t)
    /\ Apply(destroySession(Start(t, "close", id, "none", "null"), t, id))

\* the setInterval callback fires, lines 817-822
TimerFires(t) ==
    /\ Free(t)
    /\ cleanupInterval = "set"
    /\ Apply(cleanupExpiredSessions(Start(t, "sweep", 0, "none", "null"), t))

\* Shutdown without the clearInterval of line 828
ShutdownKeepingTimer(t) ==
    /\ Free(t)
    /\ LET W == Start(t, "shutdown", 0, "none", "null")
           W1 == [W EXCEPT !.tasks[t].expiredSessions = W.sessions,
                           !.tasks[t].ei = 1]
       IN  Apply(ShutdownLoop(W1, t))

\* SIGINT / SIGTERM: shutdown, lines 825-837
Shutdown(t) ==
    /\ Free(t)
    /\ LET W == Start(t, "shutdown", 0, "none", "null")
           W1 == [W EXCEPT !.cleanupInterval = "cleared",
                           !.tasks[t].expiredSessions = W.sessions,
                           !.tasks[t].ei = 1]
       IN  Apply(ShutdownLoop(W1, t))

\* page.close() settles inside destroySession
PageCloseSettles(t, ok) ==
    /\ ~exited
    /\ tasks[t].pc = "pageClose"
    /\ Apply(PageClosed(World, t, ok))

\* browser.close() settles inside destroySession
BrowserCloseSettles(t, ok) ==
    /\ ~exited
    /\ tasks[t].pc = "browserClose"
    /\ Apply(BrowserClosed(World, t, ok))

\* Date.now() - session.lastAccessed, lines 578 and 801
IdleTime(W, id) == W.now - W.heap[id].lastAccessed

\* InfoRequest reading the record with sessions.get, past getSession
InfoRequestReadOnly(t, id) ==
    /\ Free(t)
    /\ LET W == Start(t, "info", id, "none", "null") IN
       Apply(IF ~Has(sessions, id)
             THEN Throw(W, t, "NotFound")
             ELSE Finish(W, t,
                         [NoResp EXCEPT !.status = 200, !.success = TRUE,
                                        !.sessionId = id,
                                        !.currentUrl = heap[id].currentUrl,
                                        !.idleTime = <<IdleTime(W, id)>>]))

\* GET /session/:id/info, lines 567-588
InfoRequest(t, id) ==
    /\ Free(t)
    /\ LET W == Start(t, "info", id, "none", "null") IN
       Apply(IF ~Has(sessions, id)
             THEN Throw(W, t, "NotFound")
             ELSE Finish(Touch(W, id), t,
                         [NoResp EXCEPT !.status = 200, !.success = TRUE,
                                        !.sessionId = id,
                                        !.currentUrl = heap[id].currentUrl,
                                        !.idleTime = <<IdleTime(Touch(W, id), id)>>]))

\* POST /session/:id/navigate, lines 595-600
NavigateRequest(t, id, url) ==
    /\ Free(t)
    /\ Apply(PageOperation(Start(t, "navigate", id, "none", url), t))

\* browser.newPage() settles, lines 463-465: the page is pushed on the
\* record the handler holds, in the Map or not
NewPageSettles(t, ok) ==
    /\ ~exited
    /\ tasks[t].pc = "newPage"
    /\ ok => heap[tasks[t].sid].browser = "open"
    /\ LET id == tasks[t].sid IN
       Apply(IF ok
             THEN [World EXCEPT !.heap[id].pages = Append(@, "open"),
                                !.tasks[t].pc = FirstAwait(tasks[t].kind),
                                !.tasks[t].idx = Len(heap[id].pages) + 1]
             ELSE Throw(World, t, "Primitive"))

\* GotoSettles writing the url to every record of the Map, as if currentUrl
\* were one variable of the server
GotoSettlesShared(t, ok) ==
    /\ ~exited
    /\ tasks[t].pc = "goto"
    /\ Apply(IF ok
             THEN [World EXCEPT !.heap = [i \in Ids |->
                                   IF Has(sessions, i) \/ i = tasks[t].sid
                                   THEN [heap[i] EXCEPT !.currentUrl = tasks[t].url]
                                   ELSE heap[i]],
                                !.tasks[t].pc = "title"]
             ELSE Throw(World, t, "Primitive"))

\* page.setViewport and page.goto settle, lines 601-606
GotoSettles(t, ok) ==
    /\ ~exited
    /\ tasks[t].pc = "goto"
    /\ LET id == tasks[t].sid IN
       Apply(IF ok
             THEN [World EXCEPT !.heap[id].currentUrl = tasks[t].url,
                                !.tasks[t].pc = "title"]
             ELSE Throw(World, t, "Primitive"))

\* page.title() settles, lines 606-613; in the click handler, lines 643-651,
\* currentUrl is written after it
TitleSettles(t, ok) ==
    /\ ~exited
    /\ tasks[t].pc = "title"
    /\ LET id == tasks[t].sid
           W == IF tasks[t].kind = "click"
                THEN [World EXCEPT !.heap[id].currentUrl = tasks[t].url]
                ELSE World
       IN  Apply(IF ok
                 THEN Finish(W, t, [NoResp EXCEPT !.status = 200, !.success = TRUE,
                                                  !.sessionId = id])
                 ELSE Throw(World, t, "Primitive"))

\* POST /session/:id/click, lines 627-634
ClickRequest(t, id) ==
    /\ Free(t)
    /\ Apply(PageOperation(Start(t, "click", id, "none", "null"), t))

\* page.click (and waitForNavigation) settle, lines 635-643; newUrl is what
\* page.url() returns after the click
ClickSettles(t, ok, newUrl) ==
    /\ ~exited
    /\ tasks[t].pc = "click"
    /\ Apply(IF ok
             THEN [World EXCEPT !.tasks[t].url = newUrl, !.tasks[t].pc = "title"]
             ELSE Throw(World, t, "Primitive"))

\* POST /session/:id/screenshot, POST /session/:id/evaluate and
\* GET /session/:id/content up to the first await, lines 665-677, 718-722
\* and 748-751
PageKinds == {"screenshot", "evaluate", "content"}

PageRequest(t, kind, id) ==
    /\ Free(t)
    /\ Apply(PageOperation(Start(t, kind, id, "none", "null"), t))

\* ListSessions reading every record through getSession
ListSessionsTouching(W, t) ==
    Finish([W EXCEPT !.heap = [i \in Ids |->
                        IF Has(W.sessions, i)
                        THEN [W.heap[i] EXCEPT !.lastAccessed = W.now]
                        ELSE W.heap[i]]],
           t, [NoResp EXCEPT !.status = 200, !.success = TRUE,
                             !.idleTime = [i \in 1..Len(W.sessions) |-> 0]])

\* GET /sessions, lines 795-810: no getSession, nothing is written
ListSessions(W, t) ==
    Finish(W, t, [NoResp EXCEPT !.status = 200, !.success = TRUE,
                                !.idleTime = [i \in 1..Len(W.sessions) |->
                                                 IdleTime(W, W.sessions[i])]])

ListRequest(t) ==
    /\ Free(t)
    /\ Apply(ListSessions(Start(t, "list", 0, "none", "null"), t))

\* GET /health, lines 532-539
HealthRequest(t) ==
    /\ Free(t)
    /\ Apply(Finish(Start(t, "health", 0, "none", "null"), t,
                    [NoResp EXCEPT !.status = 200, !.success = TRUE,
                                   !.limit = MAX_SESSIONS]))

Min(a, b) == IF a < b THEN a ELSE b
Max(a, b) == IF a < b THEN b ELSE a

\* String.prototype.substring: both indices are clamped to 0..length and
\* swapped when the first is the larger
substring(s, indexStart, indexEnd) ==
    LET a == Min(Max(indexStart, 0), Len(s))
        b == Min(Max(indexEnd, 0), Len(s))
    IN  SubSeq(s, Min(a, b) + 1, Max(a, b))

\* ContentBody with contentLength measured on what is returned
ContentBodyMeasuringReturned(resp, content) ==
    [resp EXCEPT !.content = substring(content, 0, ContentLimit),
                 !.contentLength = Len(substring(content, 0, ContentLimit))]

\* the body of the content response, lines 758-764
ContentBody(resp, content) ==
    [resp EXCEPT !.content = substring(content, 0, ContentLimit),
                 !.contentLength = Len(content)]

\* the primitives of a content, screenshot or evaluate handler settle, lines
\* 753-763, 676-704 and 726-735
PrimitivesSettle(t, ok) ==
    /\ ~exited
    /\ tasks[t].pc = "primitives"
    /\ Apply(IF ok
             THEN LET resp == [NoResp EXCEPT !.status = 200, !.success = TRUE,
                                             !.sessionId = tasks[t].sid]
                  IN  Finish(World, t, IF tasks[t].kind = "content"
                                       THEN ContentBody(resp, doc) ELSE resp)
             ELSE Throw(World, t, "Primitive"))

----------------------------------------------------------------------------
(* The MCP server's CallTool handler, src/index.js lines 292-557.           *)
(* browserServerRequest (lines 37-59) runs curl with execSync: the handler  *)
(* blocks until the browser server has answered, and throws when curl fails *)
(* or its output is not JSON.                                               *)

Tools == {"puppeteer_navigate", "puppeteer_screenshot", "puppeteer_screenshot_debug"}

\* the catch of lines 551-556, or the return of the case: the call is over
McpEnd(W, isError) ==
    [W EXCEPT !.mcp.pc = "returned", !.mcp.isError = isError]

\* browserServerRequest for the call's next request, in slot t; when
\* `throws`, execSync throws before the request reaches the server
McpRequest(W, t, step, throws) ==
    LET m == W.mcp
        W1 == [W EXCEPT !.mcp.pc = "wait", !.mcp.step = step]
    IN  IF throws THEN McpEnd(W, TRUE)
        ELSE CASE step = "create" ->
                    \* lines 358-360, 423-425, 472-474
                    createSession(StartIn(W1, t, "create", 0, "temporary",
                                          "null", "mcp"), t)
               [] step = "navigate" ->
                    \* lines 365-368, 429-432, 477-480
                    PageOperation(StartIn(W1, t, "navigate", m.active, "none",
                                          "u1", "mcp"), t)
               [] step = "operation" ->
                    \* lines 371, 436-441, 484-488
                    PageOperation(StartIn(W1, t,
                                          IF m.tool = "puppeteer_navigate"
                                          THEN "content" ELSE "screenshot",
                                          m.active, "none", "null", "mcp"), t)
               [] OTHER ->
                    \* lines 375, 445, 492
                    destroySession(
                        StartIn([W1 EXCEPT !.mcp.deleteSent = m.active], t,
                                "close", m.active, "none", "null", "mcp"),
                        t, m.active)

\* a tool call arrives: sessionId 0 stands for a call without sessionId
McpCall(t, tool, sessionId, hasUrl, throws) ==
    /\ mcp.pc = "idle"
    /\ Free(t)
    /\ tool = "puppeteer_navigate" => hasUrl
    /\ (sessionId = 0 /\ hasUrl /\ ~throws) => nextId + PendingCreates <= NumIds
    /\ LET W == [World EXCEPT !.mcp = [McpIdle EXCEPT !.tool = tool,
                                                     !.temp = (sessionId = 0),
                                                     !.active = sessionId]]
       IN  Apply(IF sessionId = 0
                 THEN IF tool # "puppeteer_navigate" /\ ~hasUrl
                      THEN McpEnd(W, TRUE)           \* lines 419-421, 468-470
                      ELSE McpRequest(W, t, "create", throws)
                 ELSE McpRequest(W, t,
                                 IF tool = "puppeteer_navigate" THEN "navigate"
                                 ELSE "operation", throws))

\* McpContinue sending the DELETE of an ephemeral call right after the
\* navigate, ahead of the operation
McpContinueDeletingFirst(t, parseThrows, throws) ==
    /\ mcp.pc = "got"
    /\ ~exited
    /\ LET m == mcp
           W == World
       IN  IF parseThrows
           THEN Apply(McpEnd(W, TRUE))
           ELSE CASE m.step = "create" ->
                       /\ Free(t)
                       /\ Apply(McpRequest(
                              [W EXCEPT !.mcp.active = m.resp.sessionId],
                              t, "navigate", throws))
                  [] m.step = "navigate" /\ m.temp ->
                       /\ Free(t)
                       /\ Apply(McpRequest(W, t, "delete", throws))
                  [] m.step = "navigate" /\ ~m.temp ->
                       /\ Free(t)
                       /\ Apply(McpRequest(W, t, "operation", throws))
                  [] m.step = "operation" ->
                       Apply(McpEnd(W, m.tool = "puppeteer_screenshot_debug"
                                       /\ ~m.resp.success))
                  [] OTHER ->
                       /\ Free(t)
                       /\ Apply(McpRequest(W, t, "operation", throws))

\* McpContinue sending the DELETE after the operation whether the session is
\* the call's own or the caller's
McpContinueAlwaysDeleting(t, parseThrows, throws) ==
    /\ mcp.pc = "got"
    /\ ~exited
    /\ LET m == mcp
           W == World
       IN  IF parseThrows
           THEN Apply(McpEnd(W, TRUE))
           ELSE CASE m.step = "create" ->
                       /\ Free(t)
                       /\ Apply(McpRequest(
                              [W EXCEPT !.mcp.active = m.resp.sessionId],
                              t, "navigate", throws))
                  [] m.step = "navigate" ->
                       /\ Free(t)
                       /\ Apply(McpRequest(W, t, "operation", throws))
                  [] m.step = "operation" ->
                       /\ Free(t)
                       /\ Apply(McpRequest(
                              [W EXCEPT !.mcp.opOk = m.resp.success],
                              t, "delete", throws))
                  [] OTHER ->
                       Apply(McpEnd(W, m.tool = "puppeteer_screenshot_debug"
                                       /\ ~m.opOk))

\* execSync returns with the server's answer: the handler goes on to its
\* next request or returns; when `parseThrows`, JSON.parse (line 55) threw
\* on the answer; when `throws`, the next request throws
McpContinue(t, parseThrows, throws) ==
    /\ mcp.pc = "got"
    /\ ~exited
    /\ LET m == mcp
           W == World
       IN  IF parseThrows
           THEN Apply(McpEnd(W, TRUE))
           ELSE CASE m.step = "create" ->
                       /\ Free(t)
                       /\ Apply(McpRequest(
                              [W EXCEPT !.mcp.active = m.resp.sessionId],
                              t, "navigate", throws))
                  [] m.step = "navigate" ->
                       /\ Free(t)
                       /\ Apply(McpRequest(W, t, "operation", throws))
                  [] m.step = "operation" /\ m.temp ->
                       /\ Free(t)
                       /\ Apply(McpRequest(
                              [W EXCEPT !.mcp.opOk = m.resp.success],
                              t, "delete", throws))
                  [] m.step = "operation" /\ ~m.temp ->
                       \* line 498: Buffer.from(undefined) throws
                       Apply(McpEnd(W, m.tool = "puppeteer_screenshot_debug"
                                       /\ ~m.resp.success))
                  [] OTHER ->
                       Apply(McpEnd(W, m.tool = "puppeteer_screenshot_debug"
                                       /\ ~m.opOk))

\* the tool result is returned to the MCP client
McpReturn ==
    /\ mcp.pc = "returned"
    /\ mcp' = McpIdle
    /\ reply' = NoReply
    /\ UNCHANGED <<sessions, heap, now, tasks, nextId, cleanupInterval,
                   unhandled, exited, slots, budget, boot, conv, doc,
                   daemon>>

----------------------------------------------------------------------------
(* maybeConvertToFileUrl, src/index.js lines 69-93, and its first version,  *)
(* lines 837-868.  A URL is a sequence of tokens, each standing for the     *)
(* characters it spells; no token's spelling begins another's, so two URLs  *)
(* are the same string exactly when they are the same sequence.  "CWD"      *)
(* stands for the directory pwd prints.                                     *)

NoConv == [url |-> <<>>, pwdOk |-> TRUE, done |-> TRUE, out |-> <<>>,
           outV1 |-> <<>>]

PathTokens == {"/", "a", "index.html", "..", "?", "q"}

UrlPrefixes ==
    {<<"http://", "localhost", ":", "8">>,
     <<"https://", "127.0.0.1", ":", "8", "0">>,
     <<"http://", "localhost">>,
     <<"http://", "localhost", ":">>,
     <<"https://", "example.com", ":", "8">>,
     <<"http://", "192.168.1.1", ":", "8">>,
     <<"ftp://", "localhost", ":", "8">>,
     <<"a", "http://", "localhost", ":", "8">>,
     <<"file://">>}

IsDigit(c) == c \in {"0", "8"}

\* the index of the first c in s, 0 when there is none
IndexOf(s, c) ==
    IF \E i \in 1..Len(s) : s[i] = c
    THEN CHOOSE i \in 1..Len(s) : s[i] = c /\ \A j \in 1..(i - 1) : s[j] # c
    ELSE 0

\* String.prototype.includes
Includes(s, c) == IndexOf(s, c) # 0

\* where (\d+) ends when it starts at token 4: the digits are taken greedily
PortEnd(url) ==
    CHOOSE p \in 3..Len(url) :
        /\ \A i \in 4..p : IsDigit(url[i])
        /\ p = Len(url) \/ ~IsDigit(url[p + 1])

\* line 70: /^https?:\/\/(localhost|127\.0\.0\.1):(\d+)(\/.*)?$/ matches
localhostPattern(url) ==
    /\ Len(url) >= 4
    /\ url[1] \in {"http://", "https://"}
    /\ url[2] \in {"localhost", "127.0.0.1"}
    /\ url[3] = ":"
    /\ IsDigit(url[4])
    /\ PortEnd(url) = Len(url) \/ url[PortEnd(url) + 1] = "/"

\* line 74: match[3] || '/'
PathWithQuery(url) ==
    IF PortEnd(url) = Len(url) THEN <<"/">>
    ELSE SubSeq(url, PortEnd(url) + 1, Len(url))

\* line 75: the first two pieces of pathWithQuery.split('?'); a piece that
\* is missing or empty is <<>>, and both are falsy at lines 82 and 85
SplitPath(s) ==
    IF Includes(s, "?") THEN SubSeq(s, 1, IndexOf(s, "?") - 1) ELSE s

SplitQuery(s) ==
    IF ~Includes(s, "?") THEN <<>>
    ELSE LET rest == SubSeq(s, IndexOf(s, "?") + 1, Len(s)) IN
         IF Includes(rest, "?") THEN SubSeq(rest, 1, IndexOf(rest, "?") - 1)
         ELSE rest

\* path.normalize on a path without '.' and '..' segments: runs of slashes
\* become one slash, a trailing slash stays
RECURSIVE normalize(_)
normalize(s) ==
    IF Len(s) <= 1 THEN s
    ELSE IF s[1] = "/" /\ s[2] = "/" THEN normalize(Tail(s))
    ELSE <<s[1]>> \o normalize(Tail(s))

\* path.join(cwd, rest): the parts joined by a slash, then normalized
join(cwd, rest) == normalize(<<cwd, "/">> \o rest)

\* lines 82 and 85: the file URL, with the query string when there is one
FileUrl(filePath, queryString) ==
    IF queryString # <<>>
    THEN <<"file://">> \o filePath \o <<"?">> \o queryString
    ELSE <<"file://">> \o filePath

\* maybeConvertToFileUrl without the test of line 83
maybeConvertToFileUrlAnyPath(url, pwdOk) ==
    IF ~localhostPattern(url) THEN url
    ELSE LET path == SplitPath(PathWithQuery(url))
             queryString == SplitQuery(PathWithQuery(url))
         IN  IF ~pwdOk THEN url
             ELSE IF path = <<"/">> \/ path = <<"/", "index.html">>
             THEN FileUrl(join("CWD", <<"index.html">>), queryString)
             ELSE FileUrl(join("CWD", Tail(path)), queryString)

\* lines 69-93; pwdOk: execSync('pwd') returned (else the catch of line 87)
maybeConvertToFileUrl(url, pwdOk) ==
    IF ~localhostPattern(url) THEN url
    ELSE LET path == SplitPath(PathWithQuery(url))
             queryString == SplitQuery(PathWithQuery(url))
         IN  IF ~pwdOk THEN url
             ELSE IF path = <<"/">> \/ path = <<"/", "index.html">>
             THEN FileUrl(join("CWD", <<"index.html">>), queryString)
             ELSE IF ~Includes(path, "..")
             THEN FileUrl(join("CWD", Tail(path)), queryString)
             ELSE url

\* lines 837-868, the first version: the query string is part of the path
maybeConvertToFileUrlV1(url, pwdOk) ==
    IF ~localhostPattern(url) THEN url
    ELSE LET path == PathWithQuery(url)
         IN  IF ~pwdOk THEN url
             ELSE IF path = <<"/">> \/ path = <<"/", "index.html">>
             THEN FileUrl(join("CWD", <<"index.html">>), <<>>)
             ELSE IF ~Includes(path, "..")
             THEN FileUrl(join("CWD", Tail(path)), <<>>)
             ELSE url

\* line 298: the CallTool handler converts args.url
Convert ==
    /\ ~conv.done
    /\ conv' = [conv EXCEPT !.done = TRUE,
                            !.out = maybeConvertToFileUrl(conv.url, conv.pwdOk),
                            !.outV1 = maybeConvertToFileUrlV1(conv.url, conv.pwdOk)]
    /\ UNCHANGED <<sessions, heap, now, tasks, nextId, cleanupInterval,
                   unhandled, exited, reply, mcp, slots, budget, boot, doc,
                   daemon>>

----------------------------------------------------------------------------
(* The MCP server's start-up, src/index.js lines 562-608 *)

\* both servers up: the browser server answers, the transport is connected
Booted == [pc |-> "connected", running |-> TRUE, ensured |-> TRUE]

ServerSteps == UNCHANGED <<sessions, heap, now, tasks, nextId, cleanupInterval,
                           unhandled, exited, reply, mcp, slots, budget, conv,
                           doc, daemon>>

\* isBrowserServerRunning, lines 562-572, given whether curl printed 200
\* within the timeout
isBrowserServerRunning(healthy) == healthy

\* startBrowserServer, lines 578-585: it prints how to start the browser
\* server by hand and returns false
startBrowserServer == FALSE

\* ensureBrowserServer, lines 590-599
ensureBrowserServer(healthy) ==
    IF ~isBrowserServerRunning(healthy) THEN startBrowserServer ELSE TRUE

\* main, lines 601-604, up to its await: ensureBrowserServer is called, its
\* result dropped, and server.connect is called.  The health check can
\* succeed only on a running browser server.
Main(healthy) ==
    /\ boot.pc = "main"
    /\ healthy => boot.running
    /\ boot' = [boot EXCEPT !.pc = "connect",
                            !.ensured = ensureBrowserServer(healthy)]
    /\ ServerSteps

\* server.connect settles, line 605; a rejection ends in process.exit(1),
\* lines 621-624
ConnectSettles(ok) ==
    /\ boot.pc = "connect"
    /\ boot' = [boot EXCEPT !.pc = IF ok THEN "connected" ELSE "fatal"]
    /\ ServerSteps

\* somebody starts the browser server by hand, as lines 579-583 ask
BrowserServerStarts ==
    /\ ~boot.running
    /\ boot' = [boot EXCEPT !.running = TRUE]
    /\ ServerSteps

----------------------------------------------------------------------------
(* Specifications *)

InitServer ==
    /\ sessions = <<>>
    /\ heap = [i \in Ids |-> NoSession]
    /\ now = 0
    /\ tasks = [t \in Tasks |-> IdleTask]
    /\ nextId = 1
    /\ cleanupInterval = "set"
    /\ unhandled = FALSE
    /\ exited = FALSE
    /\ reply = NoReply
    /\ mcp = McpIdle
    /\ boot = Booted
    /\ conv = NoConv
    /\ doc = BlankDoc
    /\ daemon = NoDaemon

\* the requests of a run arrive concurrently
Init == InitServer /\ slots = NumTasks /\ budget = MaxHandlers

\* the requests of a run arrive one after the other
InitSeq == InitServer /\ slots = 1 /\ budget = MaxSeqHandlers

Next ==
    \/ Tick
    \/ \E t \in Tasks, md \in Metadatas : CreateRequest(t, md)
    \/ \E t \in Tasks, ok \in BOOLEAN : LaunchSettles(t, ok)
    \/ \E t \in Tasks, id \in Ids : CloseRequest(t, id)
    \/ \E t \in Tasks : TimerFires(t)
    \/ \E t \in Tasks : Shutdown(t)
    \/ \E t \in Tasks, ok \in BOOLEAN : PageCloseSettles(t, ok)
    \/ \E t \in Tasks, ok \in BOOLEAN : BrowserCloseSettles(t, ok)
    \/ \E t \in Tasks, id \in Ids : InfoRequest(t, id)
    \/ \E t \in Tasks, id \in Ids, url \in Urls : NavigateRequest(t, id, url)
    \/ \E t \in Tasks, ok \in BOOLEAN : NewPageSettles(t, ok)
    \/ \E t \in Tasks, ok \in BOOLEAN : GotoSettles(t, ok)
    \/ \E t \in Tasks, ok \in BOOLEAN : TitleSettles(t, ok)

Spec == Init /\ [][Next]_vars

\* the MCP server's tool calls, next to the browser server's timer
InitMcp == InitServer /\ slots = NumMcpTasks /\ budget = MaxMcpHandlers

NextMcp ==
    \/ Tick
    \/ \E t \in Tasks, tool \in Tools, id \in 0..NumIds, hasUrl, throws \in BOOLEAN :
          McpCall(t, tool, id, hasUrl, throws)
    \/ \E t \in Tasks, parseThrows, throws \in BOOLEAN :
          McpContinue(t, parseThrows, throws)
    \/ McpReturn
    \/ \E t \in Tasks : TimerFires(t)
    \/ \E t \in Tasks, ok \in BOOLEAN : LaunchSettles(t, ok)
    \/ \E t \in Tasks, ok \in BOOLEAN : PageCloseSettles(t, ok)
    \/ \E t \in Tasks, ok \in BOOLEAN : BrowserCloseSettles(t, ok)
    \/ \E t \in Tasks, ok \in BOOLEAN : NewPageSettles(t, ok)
    \/ \E t \in Tasks, ok \in BOOLEAN : GotoSettles(t, ok)
    \/ \E t \in Tasks, ok \in BOOLEAN : TitleSettles(t, ok)
    \/ \E t \in Tasks, ok \in BOOLEAN : PrimitivesSettle(t, ok)

SpecMcp == InitMcp /\ [][NextMcp]_vars

SpecSeq == InitSeq /\ [][Next]_vars

\* every page.close() and browser.close() that is awaited settles: it
\* resolves or it rejects
CloseSettles(t) ==
    \E ok \in BOOLEAN : PageCloseSettles(t, ok) \/ BrowserCloseSettles(t, ok)

InitFair == InitServer /\ slots = NumFairTasks /\ budget = MaxFairHandlers

SpecFair == InitFair /\ [][Next]_vars /\ \A t \in Tasks : WF_vars(CloseSettles(t))

\* the setInterval callback fires, lines 817-822, as often as the run lasts:
\* the timer is no request of the environment
IntervalFires(t) ==
    /\ ~exited
    /\ t <= slots
    /\ tasks[t].kind = "idle"
    /\ \A u \in 1..(t - 1) : tasks[u].kind # "idle"
    /\ cleanupInterval = "set"
    /\ Apply(cleanupExpiredSessions(
                 [Start(t, "sweep", 0, "none", "null") EXCEPT !.budget = budget], t))

\* every awaited primitive settles: it resolves or it rejects
Settles(t) ==
    \E ok \in BOOLEAN :
        \/ LaunchSettles(t, ok)
        \/ PageCloseSettles(t, ok)
        \/ BrowserCloseSettles(t, ok)
        \/ NewPageSettles(t, ok)
        \/ GotoSettles(t, ok)
        \/ TitleSettles(t, ok)

InitExpiry == InitServer /\ slots = NumExpiryTasks /\ budget = MaxExpiryHandlers

NextExpiry ==
    \/ Tick
    \/ \E t \in Tasks, md \in Metadatas : CreateRequest(t, md)
    \/ \E t \in Tasks, id \in Ids : InfoRequest(t, id)
    \/ \E t \in Tasks, id \in Ids, url \in Urls : NavigateRequest(t, id, url)
    \/ \E t \in Tasks : IntervalFires(t)
    \/ \E t \in Tasks : Settles(t)

\* the timer keeps firing and every awaited primitive settles
SpecExpiry ==
    /\ InitExpiry
    /\ [][NextExpiry]_vars
    /\ WF_vars(\E t \in Tasks : IntervalFires(t))
    /\ \A t \in Tasks : WF_vars(Settles(t))

\* the MCP server starts, next to a browser server that somebody may have
\* started before or may start later; once connected it serves tool calls,
\* and curl fails while nothing listens
InitBoot ==
    /\ sessions = <<>>
    /\ heap = [i \in Ids |-> NoSession]
    /\ now = 0
    /\ tasks = [t \in Tasks |-> IdleTask]
    /\ nextId = 1
    /\ cleanupInterval = "set"
    /\ unhandled = FALSE
    /\ exited = FALSE
    /\ reply = NoReply
    /\ mcp = McpIdle
    /\ slots = 1
    /\ budget = MaxBootHandlers
    /\ boot = [pc |-> "main", running |-> FALSE, ensured |-> FALSE]
    /\ conv = NoConv
    /\ doc = BlankDoc
    /\ daemon = NoDaemon

NextBoot ==
    \/ \E healthy \in BOOLEAN : Main(healthy)
    \/ \E ok \in BOOLEAN : ConnectSettles(ok)
    \/ BrowserServerStarts
    \/ /\ boot.pc = "connected"
       /\ \E t \in Tasks, tool \in Tools, id \in 0..NumIds, hasUrl, throws \in BOOLEAN :
             /\ ~boot.running => throws
             /\ McpCall(t, tool, id, hasUrl, throws)
    \/ \E t \in Tasks, parseThrows, throws \in BOOLEAN :
          McpContinue(t, parseThrows, throws)
    \/ McpReturn
    \/ \E t \in Tasks, ok \in BOOLEAN : LaunchSettles(t, ok)
    \/ \E t \in Tasks, ok \in BOOLEAN : PageCloseSettles(t, ok)
    \/ \E t \in Tasks, ok \in BOOLEAN : BrowserCloseSettles(t, ok)
    \/ \E t \in Tasks, ok \in BOOLEAN : NewPageSettles(t, ok)
    \/ \E t \in Tasks, ok \in BOOLEAN : GotoSettles(t, ok)
    \/ \E t \in Tasks, ok \in BOOLEAN : TitleSettles(t, ok)
    \/ \E t \in Tasks, ok \in BOOLEAN : PrimitivesSettle(t, ok)

SpecBoot == InitBoot /\ [][NextBoot]_vars

\* the URLs handed to maybeConvertToFileUrl
Paths == UNION {[1..n -> PathTokens] : n \in 0..MaxPathLen}

InitUrl ==
    /\ sessions = <<>>
    /\ heap = [i \in Ids |-> NoSession]
    /\ now = 0
    /\ tasks = [t \in Tasks |-> IdleTask]
    /\ nextId = 1
    /\ cleanupInterval = "set"
    /\ unhandled = FALSE
    /\ exited = FALSE
    /\ reply = NoReply
    /\ mcp = McpIdle
    /\ slots = 1
    /\ budget = 0
    /\ boot = Booted
    /\ conv \in {[url |-> p \o q, pwdOk |-> ok, done |-> FALSE, out |-> <<>>,
                  outV1 |-> <<>>] :
                     p \in UrlPrefixes, q \in Paths, ok \in BOOLEAN}
    /\ doc = BlankDoc
    /\ daemon = NoDaemon

NextUrl == Convert

SpecUrl == InitUrl /\ [][NextUrl]_vars

\* the pages a content request reads
Chars == {"a", "b"}
Docs == UNION {[1..n -> Chars] : n \in 0..MaxDocLen}

\* content requests, one after the other, on a page of any content
InitContent ==
    /\ sessions = <<>>
    /\ heap = [i \in Ids |-> NoSession]
    /\ now = 0
    /\ tasks = [t \in Tasks |-> IdleTask]
    /\ nextId = 1
    /\ cleanupInterval = "set"
    /\ unhandled = FALSE
    /\ exited = FALSE
    /\ reply = NoReply
    /\ mcp = McpIdle
    /\ slots = 1
    /\ budget = MaxContentHandlers
    /\ boot = Booted
    /\ conv = NoConv
    /\ doc \in Docs
    /\ daemon = NoDaemon

NextContent ==
    \/ \E t \in Tasks, md \in Metadatas : CreateRequest(t, md)
    \/ \E t \in Tasks, ok \in BOOLEAN : LaunchSettles(t, ok)
    \/ \E t \in Tasks, id \in Ids : PageRequest(t, "content", id)
    \/ \E t \in Tasks, ok \in BOOLEAN : NewPageSettles(t, ok)
    \/ \E t \in Tasks, ok \in BOOLEAN : PrimitivesSettle(t, ok)

SpecContent == InitContent /\ [][NextContent]_vars

----------------------------------------------------------------------------
(* The daemon-manager script, src/unnamed/part_003.  Every proot-distro     *)
(* login of the script is a step; between two of them a process of the      *)
(* container may exit, and another may start and take a free pid.  The      *)
(* commands run one after the other.                                        *)

DaemonSteps == UNCHANGED <<sessions, heap, now, tasks, nextId, cleanupInterval,
                           unhandled, exited, reply, mcp, slots, budget, boot,
                           conv, doc>>

\* ps | grep -q '^\s*$PID\s', lines 20, 60, 85, 90: a process has that pid
Listed(d, pid) == pid # 0 /\ d.procs[pid] # "free"

\* ps | grep 'node.*browser-server' | grep -v grep, line 46: the browser
\* servers that run
Servers(d) == {p \in Pids : d.procs[p] = "server"}

\* head -1 of ps's lines, which come in the order of the pids
FirstListed(S) == CHOOSE p \in S : \A q \in S : p <= q

\* exit, or the end of the case: the command is over
Exit(d, status, msg) ==
    [d EXCEPT !.Action = "none", !.pc = "none", !.PID = 0, !.status = status,
              !.msg = msg]

\* the end of stop: restart goes on with start, whatever stop's exit status
\* (lines 105-107)
StopExit(d, status, msg) ==
    IF d.Action = "restart"
    THEN [d EXCEPT !.pc = "test", !.PID = 0, !.status = status, !.msg = msg]
    ELSE Exit(d, status, msg)

\* the script is run with an action, lines 11-13
Command(action) ==
    /\ daemon.Action = "none"
    /\ daemon' = [daemon EXCEPT !.Action = action,
                                !.pc = IF action = "start" THEN "test"
                                       ELSE "stopTest",
                                !.status = 0, !.msg = "none"]
    /\ DaemonSteps

\* start: test -f $PID_FILE and cat $PID_FILE, lines 18-19
StartTest ==
    /\ daemon.pc = "test"
    /\ daemon' = IF daemon.PID_FILE # 0
                 THEN [daemon EXCEPT !.PID = daemon.PID_FILE, !.pc = "ps"]
                 ELSE [daemon EXCEPT !.pc = "launch"]
    /\ DaemonSteps

\* StartPs going on to launch whatever ps lists
StartPsLaunchingAnyway ==
    /\ daemon.pc = "ps"
    /\ daemon' = [daemon EXCEPT !.pc = "launch"]
    /\ DaemonSteps

\* start: is the process of the PID file running, lines 20-24
StartPs ==
    /\ daemon.pc = "ps"
    /\ daemon' = IF Listed(daemon, daemon.PID)
                 THEN Exit(daemon, 1, "AlreadyRunning")
                 ELSE [daemon EXCEPT !.pc = "rm"]
    /\ DaemonSteps

\* start: rm -f $PID_FILE, line 25
StartRm ==
    /\ daemon.pc = "rm"
    /\ daemon' = [daemon EXCEPT !.PID_FILE = 0, !.pc = "launch"]
    /\ DaemonSteps

\* start: the script is copied and node is started in the background with
\* pid p; after sleep 1 it is up or has exited.  Then, lines 39-52: with a
\* PID file that names a running process nothing is written; else the pid
\* of the first browser server that ps lists is written, if there is one.
StartLaunch(p, up) ==
    /\ daemon.pc = "launch"
    /\ IF up THEN daemon.procs[p] = "free" ELSE p = 1
    /\ LET d1 == IF up THEN [daemon EXCEPT !.procs[p] = "server"] ELSE daemon
           d2 == IF d1.PID_FILE # 0 /\ Listed(d1, d1.PID_FILE) THEN d1
                 ELSE IF Servers(d1) # {}
                      THEN [d1 EXCEPT !.PID_FILE = FirstListed(Servers(d1))]
                      ELSE d1
       IN  daemon' = [d2 EXCEPT !.pc = "verify"]
    /\ DaemonSteps

\* start: the check after the launch, lines 58-72
StartVerify ==
    /\ daemon.pc = "verify"
    /\ daemon' = IF daemon.PID_FILE # 0
                 THEN IF Listed(daemon, daemon.PID_FILE)
                      THEN Exit(daemon, 0, "Started")
                      ELSE Exit(daemon, 1, "Failed")
                 ELSE Exit(daemon, 1, "NoPidFile")
    /\ DaemonSteps

\* stop: test -f $PID_FILE and cat $PID_FILE, lines 78-83
StopTest ==
    /\ daemon.pc = "stopTest"
    /\ daemon' = IF daemon.PID_FILE = 0
                 THEN StopExit(daemon, 1, "NotRunning")
                 ELSE [daemon EXCEPT !.PID = daemon.PID_FILE, !.pc = "stopPs"]
    /\ DaemonSteps

\* stop: is the process running, lines 85 and 97
StopPs ==
    /\ daemon.pc = "stopPs"
    /\ daemon' = [daemon EXCEPT !.pc = IF Listed(daemon, daemon.PID)
                                       THEN "kill" ELSE "cleanup"]
    /\ DaemonSteps

\* stop: kill $PID and sleep 2, lines 86-87; the process ends within the
\* two seconds or not
StopKill(dies) ==
    /\ daemon.pc = "kill"
    /\ dies => Listed(daemon, daemon.PID)
    /\ daemon' = [daemon EXCEPT !.pc = "stopPs2",
                                !.procs[daemon.PID] = IF dies THEN "free" ELSE @]
    /\ DaemonSteps

\* stop: is the process still running, lines 90-91
StopPs2 ==
    /\ daemon.pc = "stopPs2"
    /\ daemon' = IF Listed(daemon, daemon.PID)
                 THEN [daemon EXCEPT !.pc = "kill9", !.msg = "ForceKilling"]
                 ELSE [daemon EXCEPT !.pc = "stopRm"]
    /\ DaemonSteps

\* stop: kill -9 $PID, line 92
StopKill9 ==
    /\ daemon.pc = "kill9"
    /\ daemon' = [daemon EXCEPT !.pc = "stopRm", !.procs[daemon.PID] = "free"]
    /\ DaemonSteps

\* stop: rm -f $PID_FILE after the kill, lines 95-96
StopRm ==
    /\ daemon.pc = "stopRm"
    /\ daemon' = StopExit([daemon EXCEPT !.PID_FILE = 0], 0, "Stopped")
    /\ DaemonSteps

\* stop: rm -f $PID_FILE when the process was not running, lines 98-99
StopCleanup ==
    /\ daemon.pc = "cleanup"
    /\ daemon' = StopExit([daemon EXCEPT !.PID_FILE = 0], 0, "CleanedUp")
    /\ DaemonSteps

\* a process of the container exits: the browser server crashes, or
\* another process ends
ProcessExits(p) ==
    /\ daemon.procs[p] # "free"
    /\ daemon' = [daemon EXCEPT !.procs[p] = "free"]
    /\ DaemonSteps

\* a process that is not a browser server starts and takes a free pid
OtherSpawns(p) ==
    /\ daemon.procs[p] = "free"
    /\ daemon' = [daemon EXCEPT !.procs[p] = "other"]
    /\ DaemonSteps

Actions == {"start", "stop", "restart"}

InitDaemon ==
    /\ sessions = <<>>
    /\ heap = [i \in Ids |-> NoSession]
    /\ now = 0
    /\ tasks = [t \in Tasks |-> IdleTask]
    /\ nextId = 1
    /\ cleanupInterval = "set"
    /\ unhandled = FALSE
    /\ exited = FALSE
    /\ reply = NoReply
    /\ mcp = McpIdle
    /\ slots = 1
    /\ budget = 0
    /\ boot = Booted
    /\ conv = NoConv
    /\ doc = BlankDoc
    /\ daemon = NoDaemon

NextDaemon ==
    \/ \E action \in Actions : Command(action)
    \/ StartTest
    \/ StartPs
    \/ StartRm
    \/ \E p \in Pids, up \in BOOLEAN : StartLaunch(p, up)
    \/ StartVerify
    \/ StopTest
    \/ StopPs
    \/ \E dies \in BOOLEAN : StopKill(dies)
    \/ StopPs2
    \/ StopKill9
    \/ StopRm
    \/ StopCleanup
    \/ \E p \in Pids : ProcessExits(p)
    \/ \E p \in Pids : OtherSpawns(p)

SpecDaemon == InitDaemon /\ [][NextDaemon]_vars

----------------------------------------------------------------------------
\* creates, info and list requests arriving one after the other, next to a
\* timer that keeps firing; every awaited primitive settles
InitActivity == InitServer /\ slots = 1 /\ budget = MaxActivityHandlers

NextActivity ==
    \/ Tick
    \/ \E t \in Tasks, md \in Metadatas : CreateRequest(t, md)
    \/ \E t \in Tasks, id \in Ids : InfoRequest(t, id)
    \/ \E t \in Tasks : ListRequest(t)
    \/ \E t \in Tasks : IntervalFires(t)
    \/ \E t \in Tasks, ok \in BOOLEAN : LaunchSettles(t, ok)
    \/ \E t \in Tasks, ok \in BOOLEAN : BrowserCloseSettles(t, ok)

SpecActivity ==
    /\ InitActivity
    /\ [][NextActivity]_vars
    /\ WF_vars(\E t \in Tasks : IntervalFires(t))
    /\ \A t \in Tasks : WF_vars(Settles(t))

\* every route of the session API, next to the timer
InitPages == InitServer /\ slots = NumPageTasks /\ budget = MaxPageHandlers

NextPages ==
    \/ Tick
    \/ \E t \in Tasks, md \in Metadatas : CreateRequest(t, md)
    \/ \E t \in Tasks, ok \in BOOLEAN : LaunchSettles(t, ok)
    \/ \E t \in Tasks, id \in Ids : CloseRequest(t, id)
    \/ \E t \in Tasks : TimerFires(t)
    \/ \E t \in Tasks, ok \in BOOLEAN : PageCloseSettles(t, ok)
    \/ \E t \in Tasks, ok \in BOOLEAN : BrowserCloseSettles(t, ok)
    \/ \E t \in Tasks, id \in Ids : InfoRequest(t, id)
    \/ \E t \in Tasks : ListRequest(t)
    \/ \E t \in Tasks : HealthRequest(t)
    \/ \E t \in Tasks, id \in Ids, url \in Urls : NavigateRequest(t, id, url)
    \/ \E t \in Tasks, id \in Ids : ClickRequest(t, id)
    \/ \E t \in Tasks, kind \in PageKinds, id \in Ids : PageRequest(t, kind, id)
    \/ \E t \in Tasks, ok \in BOOLEAN : NewPageSettles(t, ok)
    \/ \E t \in Tasks, ok \in BOOLEAN : GotoSettles(t, ok)
    \/ \E t \in Tasks, ok \in BOOLEAN, newUrl \in Urls : ClickSettles(t, ok, newUrl)
    \/ \E t \in Tasks, ok \in BOOLEAN : TitleSettles(t, ok)
    \/ \E t \in Tasks, ok \in BOOLEAN : PrimitivesSettle(t, ok)

SpecPages == InitPages /\ [][NextPages]_vars

\* every route of the session API, the requests arriving one after the other
InitPagesSeq == InitServer /\ slots = 1 /\ budget = MaxPageSeqHandlers

SpecPagesSeq == InitPagesSeq /\ [][NextPages]_vars

----------------------------------------------------------------------------
(* Properties *)

\* a handler that is inside cleanupExpiredSessions, tearing a session down
InSweep(t) ==
    /\ tasks[t].kind \in {"sweep", "create"}
    /\ tasks[t].pc \in {"pageClose", "browserClose"}

\* idle for more than the timeout, against a reading n of the clock
Expired(k, n) == n - heap[k].lastAccessed > SESSION_TIMEOUT_MS

\* C1: in every reachable state the registry holds at most MAX_SESSIONS
\* records, whatever the interleaving of create requests.
C1_RegistryWithinCapacity == Len(sessions) <= MAX_SESSIONS

\* C2: over the whole run browser.close() is called at most once for every
\* session.
C2_BrowserClosedAtMostOnce == \A i \in Ids : heap[i].closeCalls <= 1

\* C3: every record in the registry has a browser and pages that have not
\* been closed, and every browser that is still open belongs to a record in
\* the registry.
C3_RegistryMatchesHandles ==
    /\ \A k \in Keys(sessions) :
          /\ heap[k].browser = "open"
          /\ \A i \in 1..Len(heap[k].pages) : heap[k].pages[i] = "open"
    /\ \A i \in Ids : heap[i].browser = "open" => Has(sessions, i)

\* the step starts the teardown of a session inside a sweep
SweepBeginsDestroy(t) ==
    /\ tasks'[t].kind \in {"sweep", "create"}
    /\ tasks'[t].pc \in {"pageClose", "browserClose"}
    /\ ~InSweep(t) \/ tasks'[t].sid # tasks[t].sid

\* C4 as claimed: at the moment a sweep starts to destroy a session, the
\* session has gone more than SESSION_TIMEOUT without a lookup, so a session
\* looked up after the sweep collected it is not destroyed by that sweep.
C4_EvictsOnlyIdleAtDestroy ==
    [][\A t \in Tasks :
          SweepBeginsDestroy(t) =>
              now' - heap'[tasks'[t].sid].lastAccessed > SESSION_TIMEOUT_MS]_vars

\* C4 as amended: a sweep destroys only ids it collected, and every id it
\* collects has, at the sweep's reading of the clock, gone more than
\* SESSION_TIMEOUT without a lookup.
C4_EvictsOnlyIdleAtCollection ==
    /\ [](\A t \in Tasks :
            InSweep(t) =>
                /\ tasks[t].ei \in 1..Len(tasks[t].expiredSessions)
                /\ tasks[t].sid = tasks[t].expiredSessions[tasks[t].ei])
    /\ [][\A t \in Tasks :
            (~InSweep(t) /\ SweepBeginsDestroy(t)) =>
                /\ tasks'[t].now = now
                /\ \A i \in 1..Len(tasks'[t].expiredSessions) :
                      Expired(tasks'[t].expiredSessions[i], now)]_vars

\* C4 witness: a sweep is tearing down a session that was looked up after
\* the sweep collected it.
C4_LookedUpAfterCollection ==
    \E t \in Tasks :
        /\ InSweep(t)
        /\ tasks[t].ei > 1
        /\ Has(sessions, tasks[t].sid)
        /\ heap[tasks[t].sid].lastAccessed >= tasks[t].now

\* C5: in a sweep that no other handler interleaves with, the ids still to
\* be destroyed are exactly the live ids idle for more than SESSION_TIMEOUT
\* at the sweep's one reading of the clock, the ids already handled are out
\* of the registry, and a step of the sweep removes no other id; when the
\* sweep ends, no id above the threshold is left and every id at or below
\* it is still there.
C5_SweepRemovesExactlyExpired ==
    /\ [](\A t \in Tasks :
            InSweep(t) =>
                /\ \A k \in Keys(sessions) :
                      Expired(k, tasks[t].now) <=>
                          \E i \in tasks[t].ei..Len(tasks[t].expiredSessions) :
                              tasks[t].expiredSessions[i] = k
                /\ \A i \in 1..(tasks[t].ei - 1) :
                      ~Has(sessions, tasks[t].expiredSessions[i]))
    /\ [][\A t \in Tasks :
            InSweep(t) =>
                /\ \A k \in Keys(sessions) :
                      ~Expired(k, tasks[t].now) => Has(sessions', k)
                /\ (~InSweep(t))' =>
                      \A k \in Keys(sessions') : ~Expired(k, tasks[t].now)]_vars

\* C5 witness: a sweep is under way with a live session exactly at the
\* threshold, which it did not collect.
C5_SweepWithSessionAtThreshold ==
    \E t \in Tasks :
        /\ InSweep(t)
        /\ \E k \in Keys(sessions) :
              tasks[t].now - heap[k].lastAccessed = SESSION_TIMEOUT_MS

\* C7: when browser.close() throws while a sweep tears a session down, the
\* sweep is not aborted: it goes on to destroy the next id it collected, or,
\* after the last one, returns without an error.
C7_TeardownFailureDoesNotAbortSweep ==
    [][\A t \in Tasks :
          ( /\ InSweep(t)
            /\ tasks[t].pc = "browserClose"
            /\ tasks'[t] # tasks[t]
            /\ heap[tasks[t].sid].browser = "open"
            /\ heap'[tasks[t].sid].browser = "open" )
          => LET expired == tasks[t].expiredSessions
                 nxt == tasks[t].ei + 1
             IN  IF nxt <= Len(expired)
                 THEN /\ tasks'[t].kind = tasks[t].kind
                      /\ tasks'[t].pc \in {"pageClose", "browserClose"}
                      /\ tasks'[t].sid = expired[nxt]
                 ELSE /\ unhandled' = unhandled
                      /\ reply'.resp.error # "TypeError"]_vars

\* the step is the arrival of a create request
CreateCalled ==
    /\ budget' = budget - 1
    /\ \/ reply'.kind = "create"
       \/ \E t \in Tasks : tasks[t].kind = "idle" /\ tasks'[t].kind = "create"

\* C8 as claimed: a create that found the registry at capacity with a
\* session idle for more than SESSION_TIMEOUT, and so ran the sweep on it,
\* succeeds and inserts a new record.
C8_CreateAfterSweepSucceeds ==
    [][\A t \in Tasks :
          ( /\ tasks[t].kind = "create"
            /\ Len(tasks[t].expiredSessions) > 0
            /\ tasks'[t].kind = "idle" )
          => /\ reply'.resp.success
             /\ Has(sessions', reply'.resp.sessionId)]_vars

\* C8 as amended: with no other handler in flight, a create called at
\* capacity with a session idle for more than SESSION_TIMEOUT runs the sweep
\* on exactly the expired ids; when the sweep ends they are gone and the
\* create launches a browser; it then inserts a new record and succeeds if
\* the launch succeeds, and fails with the launch error, the registry
\* unchanged, if it does not.
C8_CreateAfterSweepSucceedsUnlessLaunchFails ==
    [][\A t \in Tasks :
          /\ ( /\ CreateCalled
               /\ tasks[t].kind = "idle" /\ tasks'[t].kind = "create"
               /\ Len(sessions) >= MAX_SESSIONS
               /\ \E k \in Keys(sessions) : Expired(k, now) )
             => /\ InSweep(t)'
                /\ Keys(tasks'[t].expiredSessions) =
                       {k \in Keys(sessions) : Expired(k, now)}
          /\ ( /\ InSweep(t) /\ tasks[t].kind = "create"
               /\ (~InSweep(t))' )
             => /\ tasks'[t].pc = "launch"
                /\ Keys(sessions') \cap Keys(tasks[t].expiredSessions) = {}
                /\ Len(sessions') < MAX_SESSIONS
          /\ ( /\ tasks[t].kind = "create" /\ tasks[t].pc = "launch"
               /\ Len(tasks[t].expiredSessions) > 0
               /\ tasks'[t].kind = "idle" )
             => \/ /\ reply'.resp.success
                   /\ reply'.resp.sessionId = tasks[t].newId
                   /\ sessions' = Append(sessions, tasks[t].newId)
                \/ /\ reply'.resp.error = "Launch"
                   /\ sessions' = sessions]_vars

\* C8 witness: a create that swept an expired session out of a full
\* registry has been admitted and is launching its browser.
C8_AdmittedAfterSweep ==
    \E t \in Tasks :
        /\ tasks[t].kind = "create"
        /\ tasks[t].pc = "launch"
        /\ Len(tasks[t].expiredSessions) > 0
        /\ Len(sessions) = MAX_SESSIONS - 1

AtCapacityAllFresh ==
    /\ Len(sessions) >= MAX_SESSIONS
    /\ \A k \in Keys(sessions) : ~Expired(k, now)

\* C9: a create called with the registry at MAX_SESSIONS and no session
\* idle for more than SESSION_TIMEOUT is answered with the capacity error
\* naming MAX_SESSIONS, launches no browser and leaves the registry and
\* every record as they were.
C9_CreateAtCapacityRejected ==
    [][(CreateCalled /\ AtCapacityAllFresh) =>
          /\ reply' = [kind |-> "create", sid |-> 0,
                       resp |-> [NoResp EXCEPT !.status = 500,
                                               !.error = "MaxSessions",
                                               !.limit = MAX_SESSIONS]]
          /\ UNCHANGED <<sessions, heap, tasks, nextId>>]_vars

\* C9 witness: a create has just been answered with the capacity error, the
\* registry full of fresh sessions.
C9_RejectedAtCapacity ==
    /\ reply.kind = "create"
    /\ reply.resp.error = "MaxSessions"
    /\ AtCapacityAllFresh

\* the step is the arrival of a close request for id
CloseCalled(id) ==
    /\ budget' = budget - 1
    /\ \/ reply'.kind = "close" /\ reply'.sid = id
       \/ \E t \in Tasks : /\ tasks[t].kind = "idle"
                           /\ tasks'[t].kind = "close"
                           /\ tasks'[t].sid = id

\* C10: a close request for an absent id is answered {success: false} at
\* once and changes neither the registry nor any record; a close request
\* for a live id starts the teardown and is answered {success: true} with
\* the id out of the registry, so that the next one is answered false; no
\* close request is answered with an error, whatever closes throw.
C10_DestroyIdempotentNeverThrows ==
    [][/\ \A id \in Ids :
            (CloseCalled(id) /\ ~Has(sessions, id)) =>
                /\ reply' = [kind |-> "close", sid |-> id,
                             resp |-> [NoResp EXCEPT !.status = 200]]
                /\ UNCHANGED <<sessions, heap, tasks>>
       /\ \A id \in Ids :
            (CloseCalled(id) /\ Has(sessions, id)) =>
                /\ reply' = NoReply
                /\ \E t \in Tasks : /\ tasks'[t].kind = "close"
                                    /\ tasks'[t].sid = id
                                    /\ tasks'[t].pc \in {"pageClose", "browserClose"}
       /\ \A t \in Tasks :
            (tasks[t].kind = "close" /\ tasks'[t].kind = "idle") =>
                /\ reply' = [kind |-> "close", sid |-> tasks[t].sid,
                             resp |-> [NoResp EXCEPT !.status = 200,
                                                     !.success = TRUE]]
                /\ ~Has(sessions', tasks[t].sid)
       /\ reply'.kind = "close" =>
                /\ reply'.resp.status = 200
                /\ reply'.resp.error = "none"]_vars

\* C10 witness: a close request has been answered {success: true} although
\* browser.close() threw and left the browser running.
C10_ClosedThoughCloseThrew ==
    /\ reply.kind = "close"
    /\ reply.resp.success
    /\ ~Has(sessions, reply.sid)
    /\ heap[reply.sid].browser = "open"

\* C6: when an ephemeral tool call returns, a DELETE was sent for the
\* session the server created for it, on every exit path, and the call
\* leaves no session of its own in the registry.
C6_EphemeralCallCleansUp ==
    (mcp.pc = "returned" /\ mcp.temp /\ mcp.created # 0) =>
        /\ mcp.deleteSent = mcp.created
        /\ ~Has(sessions, mcp.created)

\* the requests that look a session up with getSession
LookupKinds == {"info", "navigate", "click", "screenshot", "evaluate", "content"}

\* the step is the arrival of a request that looks id up
LookupCalled(id) ==
    /\ budget' = budget - 1
    /\ \/ reply'.kind \in LookupKinds /\ reply'.sid = id
       \/ \E t \in Tasks : /\ tasks[t].kind = "idle"
                           /\ tasks'[t].kind \in LookupKinds
                           /\ tasks'[t].sid = id

\* id was created and has been removed from the registry
Removed(id) == heap[id].browser # "none" /\ ~Has(sessions, id)

\* C11: once an id has been removed from the registry it never reappears,
\* and every later lookup of it is answered with the not-found error at once,
\* also when an operation on the session was in flight at its destruction.
C11_RemovedIdStaysRemoved ==
    [][\A id \in Ids :
          Removed(id) =>
              /\ ~Has(sessions', id)
              /\ LookupCalled(id) =>
                     /\ reply'.kind \in LookupKinds
                     /\ reply'.sid = id
                     /\ ~reply'.resp.success
                     /\ reply'.resp.error = "NotFound"]_vars

\* C11 witness: a lookup of a removed id has just been answered not-found
\* while a navigate on that session, begun before its destruction, is still
\* in flight.
C11_NotFoundWithOperationInFlight ==
    /\ reply.kind \in LookupKinds
    /\ reply.resp.error = "NotFound"
    /\ Removed(reply.sid)
    /\ \E t \in Tasks : tasks[t].kind = "navigate" /\ tasks[t].sid = reply.sid

\* handler t is inside destroySession(id), awaiting a close
Destroying(t, id) ==
    /\ tasks[t].pc \in {"pageClose", "browserClose"}
    /\ tasks[t].sid = id

\* C12: when every awaited close settles, a destroySession call on a live id
\* returns and the id is out of the registry, whichever closes throw, unless
\* shutdown ends the process first.
C12_DestroyCompletes ==
    \A t \in Tasks, id \in Ids :
        Destroying(t, id) ~> (exited \/ (~Destroying(t, id) /\ ~Has(sessions, id)))

\* C12 witness: a destroy has returned true and its record is out of the
\* registry although the browser close threw, leaving the browser and its
\* page open.
C12_RemovedThoughEveryCloseThrew ==
    /\ reply.kind = "close"
    /\ reply.resp.success
    /\ ~Has(sessions, reply.sid)
    /\ heap[reply.sid].browser = "open"
    /\ Len(heap[reply.sid].pages) > 0
    /\ \A i \in 1..Len(heap[reply.sid].pages) : heap[reply.sid].pages[i] = "open"

\* C13: a lookup of an id that is in the registry sets the record's
\* lastAccessed to the current time in the step of the lookup and fails with
\* no not-found error; a lookup of an absent id is answered with the
\* not-found error and changes neither the registry nor any record.
C13_LookupTouchesOrFails ==
    [][\A id \in Ids :
          LookupCalled(id) =>
              IF Has(sessions, id)
              THEN /\ heap'[id].lastAccessed = now
                   /\ reply'.resp.error # "NotFound"
                   /\ sessions' = sessions
              ELSE /\ reply'.kind \in LookupKinds
                   /\ reply'.sid = id
                   /\ reply'.resp.error = "NotFound"
                   /\ ~reply'.resp.success
                   /\ UNCHANGED <<sessions, heap, tasks>>]_vars

\* C13 witness: an info request has just been answered with success, the
\* lastAccessed of its session the current time, that of another session an
\* earlier one.
C13_TouchedByInfo ==
    /\ reply.kind = "info"
    /\ reply.resp.success
    /\ now > 0
    /\ heap[reply.sid].lastAccessed = now
    /\ \E k \in Keys(sessions) : heap[k].lastAccessed < now

\* C14: the lastAccessed of a record in the registry changes only in the
\* step of a lookup of its id: the list and health requests, sweeps, creates,
\* destroys and the later steps of page operations leave it as it is.
C14_LastAccessedChangedOnlyByLookup ==
    [][\A id \in Ids :
          ( /\ Has(sessions, id)
            /\ Has(sessions', id)
            /\ heap'[id].lastAccessed # heap[id].lastAccessed )
          => LookupCalled(id)]_vars

\* C14 witness: the list request has just been answered with a positive
\* idle time for a session, whose lastAccessed is still the earlier one.
C14_ListedWithoutTouch ==
    /\ reply.kind = "list"
    /\ \E i \in 1..Len(sessions) :
          /\ reply.resp.idleTime[i] > 0
          /\ heap[sessions[i]].lastAccessed < now

\* C15: the clock never going backwards, the lastAccessed of a record in
\* the registry is never after the current time and never decreases, and
\* every idle time reported by the info and list responses is non-negative.
C15_LastAccessedMonotone ==
    /\ [](\A k \in Keys(sessions) : heap[k].lastAccessed <= now)
    /\ [](reply.kind \in {"info", "list"} =>
            \A i \in 1..Len(reply.resp.idleTime) : reply.resp.idleTime[i] >= 0)
    /\ [][/\ now' >= now
          /\ \A id \in Ids :
                (Has(sessions, id) /\ Has(sessions', id)) =>
                    heap'[id].lastAccessed >= heap[id].lastAccessed]_vars

\* C15 witness: the list request has just been answered with the idle times
\* of two sessions, the first one's the greater.
C15_ListedTwoIdleTimes ==
    /\ reply.kind = "list"
    /\ Len(reply.resp.idleTime) = 2
    /\ reply.resp.idleTime[1] > reply.resp.idleTime[2]

\* the step is the arrival of a request that looks id up and finds it
LookupSucceeds(id) == LookupCalled(id) /\ Has(sessions, id)

\* C16 as claimed: every successful lookup leaves the record's lastAccessed
\* greater than it was.
C16_LookupStrictlyIncreases ==
    [][\A id \in Ids :
          LookupSucceeds(id) =>
              heap'[id].lastAccessed > heap[id].lastAccessed]_vars

\* C16 as amended: a successful lookup never lowers the record's
\* lastAccessed, and leaves it greater than it was exactly when the clock
\* has advanced since it was last written.
C16_LookupIncreasesWhenClockAdvanced ==
    [][\A id \in Ids :
          LookupSucceeds(id) =>
              /\ heap'[id].lastAccessed >= heap[id].lastAccessed
              /\ heap'[id].lastAccessed > heap[id].lastAccessed
                     <=> heap[id].lastAccessed < now]_vars

\* C16 witness: an info request has been answered with success at the very
\* reading of the clock at which its session was created.
C16_LookedUpInTheSameInstant ==
    /\ reply.kind = "info"
    /\ reply.resp.success
    /\ now = 0
    /\ heap[reply.sid].lastAccessed = 0

\* the handler of a navigate or click request ends in slot t, answering
\* that a primitive failed
OperationFailed(t) ==
    /\ tasks[t].kind \in {"navigate", "click"}
    /\ tasks'[t].kind = "idle"
    /\ reply'.resp.error = "Primitive"

\* C17: when a navigate or click request on a live session is answered with
\* the failure of a primitive, the record is still in the registry and its
\* currentUrl is the one it had when the request arrived.
C17_FailedOperationKeepsCurrentUrl ==
    [][\A t \in Tasks :
          OperationFailed(t) =>
              /\ Has(sessions', tasks[t].sid)
              /\ heap'[tasks[t].sid].currentUrl = tasks[t].url0]_vars

\* the response r reports one of the three failures: create at capacity, a
\* page operation on an absent id, a primitive that failed on a live session
ReportsFailure(r) ==
    \/ r.kind = "create" /\ r.resp.error = "MaxSessions"
    \/ r.kind \in LookupKinds \ {"info"} /\ r.resp.error \in {"NotFound", "Primitive"}

\* C18: two failure responses of different kinds (capacity, not found,
\* primitive failed) differ in their status, not only in their message.
C18_FailureKindsDistinguishable ==
    [][( /\ ReportsFailure(reply)
         /\ ReportsFailure(reply')
         /\ reply.resp.error # reply'.resp.error )
       => reply.resp.status # reply'.resp.status]_vars

\* the step is a step of a page operation on session id, in slot t
OperationStep(t, id) ==
    /\ tasks'[t] # tasks[t]
    /\ \/ tasks[t].kind \in LookupKinds /\ tasks[t].sid = id
       \/ /\ tasks[t].kind = "idle"
          /\ tasks'[t].kind \in LookupKinds
          /\ tasks'[t].sid = id

\* C19: a step of a page operation on one session leaves every other
\* session's record (currentUrl, pages, browser, metadata, lastAccessed) and
\* its membership of the registry as they were, and the info response
\* reports the currentUrl of the session it was asked for.
C19_SessionsIsolated ==
    /\ [](reply.kind = "info" /\ reply.resp.success =>
              reply.resp.currentUrl = heap[reply.sid].currentUrl)
    /\ [][\A t \in Tasks, A \in Ids :
             OperationStep(t, A) =>
                 \A B \in Ids \ {A} :
                     /\ heap'[B] = heap[B]
                     /\ Has(sessions', B) <=> Has(sessions, B)]_vars

\* C19 witness: two sessions of the registry have been navigated to different
\* urls and each record holds its own.
C19_TwoSessionsTwoUrls ==
    \E A \in Keys(sessions), B \in Keys(sessions) :
        /\ heap[A].currentUrl = "u1"
        /\ heap[B].currentUrl = "u2"

\* C20: the handler of a lookup or page operation ends only by sending its
\* caller a response, a success with status 200 or a failure with status 404
\* or 500, and with no error left uncaught, also when its session was
\* destroyed by a close, a sweep or shutdown while it was outstanding.
C20_OperationEndsWithResponse ==
    [][\A t \in Tasks :
          (tasks[t].kind \in LookupKinds /\ tasks'[t].kind # tasks[t].kind) =>
              /\ tasks'[t].kind = "idle"
              /\ reply'.kind = tasks[t].kind
              /\ reply'.sid = tasks[t].sid
              /\ \/ reply'.resp.success /\ reply'.resp.status = 200
                 \/ /\ ~reply'.resp.success
                    /\ reply'.resp.status \in {404, 500}
                    /\ reply'.resp.error # "none"
              /\ unhandled' = unhandled]_vars

\* C20 witness: a navigate has just been answered with the failure of a
\* primitive, its session destroyed while it was outstanding.
C20_FailedAfterDestroy ==
    /\ reply.kind = "navigate"
    /\ reply.resp.error = "Primitive"
    /\ Removed(reply.sid)

\* C21: when the process has exited through shutdown the registry is empty,
\* no browser the server launched is still open, and no create is left
\* suspended at its launch.
C21_ShutdownLeavesNothing ==
    exited =>
        /\ Len(sessions) = 0
        /\ \A i \in Ids : heap[i].browser # "open"
        /\ \A t \in Tasks : tasks[t].pc # "launch"

\* the step is the arrival of a signal: shutdown is called
ShutdownCalled ==
    /\ budget' = budget - 1
    /\ \/ exited' /\ ~exited
       \/ \E t \in Tasks : tasks[t].kind = "idle" /\ tasks'[t].kind = "shutdown"

\* the step is the firing of the timer: the callback calls the sweep
TimerFired ==
    /\ budget' = budget - 1
    /\ reply' = NoReply
    /\ exited' = exited
    /\ \/ tasks' = tasks
       \/ \E t \in Tasks : tasks[t].kind = "idle" /\ tasks'[t].kind = "sweep"

\* C22: the step in which shutdown is called cancels the timer and takes
\* the ids of the registry, before any teardown; once the timer is
\* cancelled it never fires again; shutdown goes through the ids it took in
\* their order, and when it exits it has called destroy for each of them, so
\* that none is left in the registry.
C22_TimerCancelledBeforeDestroys ==
    /\ [](\A t \in Tasks :
            tasks[t].kind = "shutdown" =>
                /\ cleanupInterval = "cleared"
                /\ tasks[t].ei \in 1..Len(tasks[t].expiredSessions)
                /\ tasks[t].sid = tasks[t].expiredSessions[tasks[t].ei])
    /\ [][/\ ShutdownCalled =>
                /\ cleanupInterval' = "cleared"
                /\ \A t \in Tasks :
                      tasks'[t].kind = "shutdown" /\ tasks[t].kind = "idle" =>
                          tasks'[t].expiredSessions = sessions
          /\ cleanupInterval = "cleared" =>
                /\ ~TimerFired
                /\ cleanupInterval' = "cleared"
          /\ \A t \in Tasks :
                (tasks[t].kind = "shutdown" /\ tasks'[t] # tasks[t]) =>
                    /\ tasks'[t].kind = "shutdown" =>
                          /\ tasks'[t].expiredSessions = tasks[t].expiredSessions
                          /\ tasks'[t].ei >= tasks[t].ei
                          /\ \A i \in 1..(tasks'[t].ei - 1) :
                                ~Has(sessions', tasks[t].expiredSessions[i])
                    /\ tasks'[t].kind = "idle" =>
                          /\ exited'
                          /\ \A i \in 1..Len(tasks[t].expiredSessions) :
                                ~Has(sessions', tasks[t].expiredSessions[i])]_vars

\* C22 witness: shutdown, the timer cancelled, is tearing down the second
\* of the ids it took.
C22_ShutdownAtSecondSession ==
    \E t \in Tasks :
        /\ tasks[t].kind = "shutdown"
        /\ tasks[t].ei = 2
        /\ cleanupInterval = "cleared"

\* the step is a step of a tool call that was given a sessionId: of the
\* MCP handler, or of the browser server's handler of one of its requests
PassthroughStep ==
    /\ ~mcp.temp
    /\ ~mcp'.temp
    /\ \/ mcp' # mcp
       \/ \E t \in Tasks : /\ tasks'[t] # tasks[t]
                           /\ "mcp" \in {tasks[t].client, tasks'[t].client}

\* C23: a tool call that was given a sessionId sends neither a create nor a
\* delete request, and no step of it or of its requests changes the ids in
\* the registry.
C23_PassthroughKeepsRegistry ==
    /\ [](~mcp.temp => mcp.created = 0 /\ mcp.deleteSent = 0)
    /\ [][PassthroughStep =>
             /\ sessions' = sessions
             /\ \A t \in Tasks :
                   tasks'[t].client = "mcp" =>
                       tasks'[t].kind \notin {"create", "close"}
             /\ reply'.kind \notin {"create", "close"}]_vars

\* C23 witness: a tool call given the id of a session of the registry has
\* returned after its operation succeeded.
C23_PassthroughReturned ==
    /\ mcp.pc = "returned"
    /\ ~mcp.temp
    /\ mcp.step = "operation"
    /\ mcp.resp.success
    /\ Has(sessions, mcp.active)

\* C24: under a timer that keeps firing, a session that has been idle for
\* more than the timeout is eventually out of the registry with its browser
\* closed, unless a lookup touches it first.
C24_ExpiredSessionClosed ==
    \A k \in Ids :
        (Has(sessions, k) /\ Expired(k, now))
            ~> \/ Removed(k) /\ heap[k].browser = "closed"
               \/ Has(sessions, k) /\ ~Expired(k, now)

\* the step answers a create request with success
CreateSucceeds == reply'.kind = "create" /\ reply'.resp.success

\* C25: every key of the registry occurs once and maps to the record that
\* holds that key as its id; a create that succeeds inserts one new key,
\* an id that was never used before, with a browser launched for it, and
\* a key enters the registry in no other step.
C25_OneRecordPerId ==
    /\ [](/\ \A i, j \in 1..Len(sessions) : sessions[i] = sessions[j] => i = j
          /\ \A k \in Keys(sessions) : heap[k].id = k /\ heap[k].browser # "none")
    /\ [][/\ CreateSucceeds =>
                LET k == reply'.resp.sessionId IN
                /\ k \in Ids
                /\ heap[k].browser = "none"
                /\ ~Has(sessions, k)
                /\ Keys(sessions') = Keys(sessions) \cup {k}
                /\ heap'[k].id = k
                /\ heap'[k].browser = "open"
                /\ heap'[k].closeCalls = 0
          /\ \A id \in Keys(sessions') \ Keys(sessions) :
                CreateSucceeds /\ reply'.resp.sessionId = id]_vars

\* C25 witness: a create has just succeeded while an id handed out earlier
\* is out of the registry and another one is still in it.
C25_CreatedAfterRemoval ==
    /\ reply.kind = "create"
    /\ reply.resp.success
    /\ Len(sessions) = 2
    /\ \E k \in Ids : Removed(k)

\* C26: when the browser server answers a request of a tool call with an
\* error (create rejected, session not found, primitive failed), the call
\* ends there with an error result; an ephemeral call never goes on without
\* the id of a session it created.
C26_ServerFailureReachesCaller ==
    /\ []((mcp.temp /\ mcp.step \in {"navigate", "operation", "delete"})
            => mcp.active # 0)
    /\ [][(mcp.pc = "got" /\ mcp.resp.error # "none" /\ mcp' # mcp)
            => (mcp'.pc = "returned" /\ mcp'.isError)]_vars

\* C27: the MCP server connects its transport only when the browser server
\* is running: while server.connect is called or has resolved, the browser
\* server is up.
C27_ConnectsAfterBrowserServer ==
    boot.pc \in {"connect", "connected"} => boot.running

\* the URL begins with http(s)://localhost:<port> or
\* http(s)://127.0.0.1:<port>, followed by nothing or by a slash
IsLocalhostUrl(url) == localhostPattern(url)

\* what follows the port up to the first '?', and "/" when nothing follows
UrlPath(url) == SplitPath(PathWithQuery(url))

\* C28, as stated: the input comes back unchanged when it is no localhost
\* URL or its path contains '..'; a localhost URL with path '/', no path or
\* '/index.html' gives file://<cwd>/index.html, and any other localhost
\* path without '..' gives file://<cwd>/<path> (pwd succeeding).
C28_ConvertsAsStated ==
    (conv.done /\ conv.pwdOk /\ conv.url # <<>>) =>
        LET url == conv.url IN
        IF ~IsLocalhostUrl(url) \/ Includes(UrlPath(url), "..")
        THEN conv.out = url
        ELSE IF UrlPath(url) \in {<<"/">>, <<"/", "index.html">>}
        THEN conv.out = <<"file://", "CWD", "/", "index.html">>
        ELSE conv.out = <<"file://", "CWD">> \o UrlPath(url)

\* C28, amended: as stated, except that the path is what precedes the first
\* '?', that runs of slashes in it are collapsed, that a non-empty query
\* string up to a second '?' is appended as ?<query>, and that the input
\* comes back unchanged when pwd fails; the first version of the function
\* returns the same on every URL without '?'.
C28_ConvertsKeepingQuery ==
    (conv.done /\ conv.url # <<>>) =>
        LET url == conv.url
            query == SplitQuery(PathWithQuery(url))
            suffix == IF query = <<>> THEN <<>> ELSE <<"?">> \o query
        IN  /\ (~IsLocalhostUrl(url) \/ ~conv.pwdOk) => conv.out = url
            /\ (IsLocalhostUrl(url) /\ conv.pwdOk) =>
                 IF UrlPath(url) \in {<<"/">>, <<"/", "index.html">>}
                 THEN conv.out = <<"file://", "CWD", "/", "index.html">> \o suffix
                 ELSE IF Includes(UrlPath(url), "..")
                 THEN conv.out = url
                 ELSE /\ conv.out = <<"file://", "CWD">> \o normalize(UrlPath(url))
                                         \o suffix
                      /\ SubSeq(conv.out, 1, 3) = <<"file://", "CWD", "/">>
                      /\ ~Includes(conv.out, "..") \/ Includes(query, "..")
            /\ ~Includes(url, "?") => conv.outV1 = conv.out

\* C28 witness: a localhost URL with a doubled slash in its path and a query
\* string has been converted.
C28_ConvertedWithQuery ==
    /\ conv.done
    /\ conv.url = <<"http://", "localhost", ":", "8", "/", "/", "?", "q">>
    /\ conv.out = <<"file://", "CWD", "/", "?", "q">>

\* C29: destroySession on a live id calls close on the pages of the record
\* in the order of the list, going on to the next page whether the close
\* resolved or threw; it calls browser.close() only when it has been through
\* the whole list, and the id leaves the registry only in the step in which
\* that browser.close() has settled.
C29_DestroyInOrder ==
    [][/\ \A t \in Tasks :
             LET a == tasks[t]
                 b == tasks'[t]
             IN  /\ (b.pc = "pageClose" /\ a.pc # "pageClose") =>
                        /\ b.idx = 1
                        /\ Has(sessions', b.sid)
                        /\ Len(heap[b.sid].pages) > 0
                 /\ (a.pc = "pageClose" /\ b # a) =>
                        /\ b.sid = a.sid
                        /\ IF a.idx < Len(heap[a.sid].pages)
                           THEN b.pc = "pageClose" /\ b.idx = a.idx + 1
                           ELSE b.pc = "browserClose"
                 /\ (b.pc = "browserClose" /\ b # a) =>
                        /\ heap'[b.sid].closeCalls = heap[b.sid].closeCalls + 1
                        /\ \/ a.pc = "pageClose" /\ a.idx = Len(heap[b.sid].pages)
                           \/ a.pc # "pageClose" /\ Len(heap[b.sid].pages) = 0
       /\ \A id \in Ids :
             (Has(sessions, id) /\ ~Has(sessions', id)) =>
                 /\ heap[id].closeCalls >= 1
                 /\ \E t \in Tasks : /\ tasks[t].pc = "browserClose"
                                     /\ tasks[t].sid = id
                                     /\ tasks'[t] # tasks[t]]_vars

\* C29 witness: a destroy awaits browser.close() on a session that is still
\* in the registry after the close of its first page threw and the close of
\* its second page resolved.
C29_BrowserCloseAfterPageThrew ==
    \E t \in Tasks :
        /\ tasks[t].pc = "browserClose"
        /\ Has(sessions, tasks[t].sid)
        /\ heap[tasks[t].sid].pages = <<"open", "closed">>

\* the routes that call getCurrentPage
PageOpKinds == {"navigate", "click", "screenshot", "evaluate", "content"}

\* C30: a page operation that finds its session takes the last page of a
\* non-empty list and leaves the list as it is; on an empty list it awaits
\* newPage, and when that resolves exactly one page is appended and taken;
\* a list grows in no other step, and a create that succeeds leaves the new
\* record with an empty list.
C30_CurrentPageIsLastOrNew ==
    [][/\ \A t \in Tasks :
             LET a == tasks[t]
                 b == tasks'[t]
             IN  /\ (a.kind = "idle" /\ b.kind \in PageOpKinds) =>
                        /\ Has(sessions, b.sid)
                        /\ heap'[b.sid].pages = heap[b.sid].pages
                        /\ IF Len(heap[b.sid].pages) > 0
                           THEN /\ b.pc = FirstAwait(b.kind)
                                /\ b.idx = Len(heap[b.sid].pages)
                           ELSE b.pc = "newPage"
                 /\ (a.pc = "newPage" /\ b # a) =>
                        \/ /\ b.pc = FirstAwait(a.kind)
                           /\ b.sid = a.sid
                           /\ heap'[a.sid].pages = Append(heap[a.sid].pages, "open")
                           /\ b.idx = Len(heap'[a.sid].pages)
                        \/ /\ b = IdleTask
                           /\ ~reply'.resp.success
                           /\ Len(heap'[a.sid].pages) <= Len(heap[a.sid].pages)
       /\ \A id \in Ids :
             Len(heap'[id].pages) > Len(heap[id].pages) =>
                 /\ Len(heap'[id].pages) = Len(heap[id].pages) + 1
                 /\ \E t \in Tasks : /\ tasks[t].pc = "newPage"
                                     /\ tasks[t].sid = id
                                     /\ tasks'[t].pc # "newPage"
       /\ CreateSucceeds => heap'[reply'.resp.sessionId].pages = <<>>]_vars

\* C30 witness: two page operations are in flight on a session with one
\* page, both past getCurrentPage and both holding that page.
C30_TwoOperationsOnePage ==
    \E t, u \in Tasks :
        /\ t # u
        /\ tasks[t].kind \in PageOpKinds
        /\ tasks[u].kind \in PageOpKinds
        /\ tasks[t].sid = tasks[u].sid
        /\ tasks[t].pc \notin {"start", "newPage"}
        /\ tasks[u].pc \notin {"start", "newPage"}
        /\ tasks[t].idx = 1
        /\ tasks[u].idx = 1
        /\ heap[tasks[t].sid].pages = <<"open">>

\* C31: a create that arrives while the registry holds fewer than
\* MAX_SESSIONS records goes straight to the launch: it collects no id,
\* removes no session and changes no record, also with a session idle for
\* more than SESSION_TIMEOUT in the registry; a create tears sessions down
\* only when it arrived with the registry at MAX_SESSIONS or more, and never
\* after its launch.
C31_CreateBelowCapacityRunsNoSweep ==
    [][/\ (CreateCalled /\ Len(sessions) < MAX_SESSIONS) =>
             /\ reply'.kind # "create"
             /\ sessions' = sessions
             /\ \A k \in Keys(sessions) : heap'[k] = heap[k]
       /\ \A t \in Tasks :
             LET a == tasks[t]
                 b == tasks'[t]
             IN  /\ (a.kind = "idle" /\ b.kind = "create"
                        /\ Len(sessions) < MAX_SESSIONS) =>
                        /\ b.pc = "launch"
                        /\ b.expiredSessions = <<>>
                 /\ (a.kind = "idle" /\ b.kind = "create"
                        /\ b.pc \in {"pageClose", "browserClose"}) =>
                        Len(sessions) >= MAX_SESSIONS
                 /\ (a.kind = "create" /\ a.pc = "launch" /\ b # a) =>
                        b.kind = "idle"]_vars

\* C31 witness: a create awaits its launch, having collected nothing, while
\* the only session of the registry has been idle for more than the timeout.
C31_LaunchingBesideExpired ==
    \E t \in Tasks, k \in Ids :
        /\ tasks[t].kind = "create"
        /\ tasks[t].pc = "launch"
        /\ tasks[t].expiredSessions = <<>>
        /\ sessions = <<k>>
        /\ Expired(k, now)

\* the route a step of a tool call requests
KindsOfStep(step) ==
    CASE step = "create" -> {"create"}
      [] step = "navigate" -> {"navigate"}
      [] step = "operation" -> {"content", "screenshot"}
      [] step = "delete" -> {"close"}
      [] OTHER -> {}

\* C32: an ephemeral tool call sends create, navigate, the operation and the
\* delete in this order, each after the answer to the one before; the create
\* carries metadata temporary, and every other request is addressed to the
\* sessionId of the answer to the call's own create, so to no session but
\* the one created for the call.
C32_EphemeralRequestsInOrder ==
    [][mcp'.temp =>
         /\ mcp'.step # mcp.step =>
               /\ <<mcp.step, mcp'.step>> \in
                      {<<"none", "create">>, <<"create", "navigate">>,
                       <<"navigate", "operation">>, <<"operation", "delete">>}
               /\ mcp.step # "none" => mcp.pc = "got"
               /\ budget' = budget - 1
               /\ \/ \E t \in Tasks : /\ tasks[t].kind = "idle"
                                       /\ tasks'[t].client = "mcp"
                  \/ /\ reply'.kind \in KindsOfStep(mcp'.step)
                     /\ reply'.sid = mcp'.active
                     /\ mcp'.pc = "got"
         /\ \A t \in Tasks :
               tasks'[t].client = "mcp" =>
                   /\ tasks'[t].kind \in KindsOfStep(mcp'.step)
                   /\ IF tasks'[t].kind = "create"
                      THEN tasks'[t].md = "temporary"
                      ELSE tasks'[t].sid = mcp'.active
         /\ mcp'.step \in {"navigate", "operation", "delete"} =>
               /\ mcp'.active = mcp'.created
               /\ mcp'.active = 0 \/ heap'[mcp'.active].metadata \in {"temporary", "none"}
         /\ mcp'.deleteSent # 0 =>
               /\ mcp'.step = "delete"
               /\ mcp'.deleteSent = mcp'.created]_vars

\* C32 witness: an ephemeral call has returned after its operation
\* succeeded and its delete was sent for the session created for it.
C32_EphemeralCallDone ==
    /\ mcp.pc = "returned"
    /\ mcp.temp
    /\ mcp.step = "delete"
    /\ mcp.opOk
    /\ mcp.created # 0
    /\ mcp.deleteSent = mcp.created
    /\ ~Has(sessions, mcp.created)

\* C33: a sweep that reaches an id which has left the registry since it was
\* collected skips it without an error: no timer callback ends with an
\* error nobody catches, and no create that ran the sweep is answered with
\* the TypeError of a lookup that found nothing.
C33_SweepSkipsRemovedIds ==
    /\ ~unhandled
    /\ reply.resp.error # "TypeError"

\* C34: the page list of a session never holds more than one page, also
\* when two page operations on it both start while the list is empty.
C34_AtMostOnePage ==
    \A id \in Ids : Len(heap[id].pages) <= 1

\* C35: when the launch of a create fails, the create is answered with the
\* launch error, and the step leaves the registry and every record in it as
\* they were: nothing is inserted under the id drawn for the create, and no
\* browser exists for it.
C35_FailedLaunchChangesNothing ==
    [][\A t \in Tasks :
          ( /\ tasks[t].kind = "create"
            /\ tasks[t].pc = "launch"
            /\ tasks'[t] # tasks[t]
            /\ ~reply'.resp.success )
          => /\ tasks'[t] = IdleTask
             /\ reply'.kind = "create"
             /\ reply'.resp = ErrorResp(500, "Launch")
             /\ sessions' = sessions
             /\ \A k \in Keys(sessions) : heap'[k] = heap[k]
             /\ ~Has(sessions', tasks[t].newId)
             /\ heap'[tasks[t].newId] = NoSession]_vars

\* C35 witness: a create that found the registry at capacity and evicted an
\* idle session (the last one its handler tore down, reply.sid) has been
\* answered with the launch error, and the session that was not idle is
\* still in the registry.
C35_LaunchFailedAfterSweep ==
    /\ reply.kind = "create"
    /\ reply.resp.error = "Launch"
    /\ reply.sid # 0
    /\ Removed(reply.sid)
    /\ Len(sessions) = 1

\* the step is the start of a sweep by handler t: the ids are collected
SweepCollects(t) ==
    /\ tasks[t].kind = "idle"
    /\ tasks'[t].kind \in {"sweep", "create"}
    /\ tasks'[t].expiredSessions # <<>>

\* C36: an info request that finds its session sets lastAccessed to the
\* current time and a list request changes no lastAccessed; a sweep collects
\* only sessions idle for more than SESSION_TIMEOUT at its start and tears
\* down only sessions it collected, so that a session which is never idle
\* for more than SESSION_TIMEOUT is never torn down by a sweep; and, with
\* the timer firing again and again, a session idle for more than
\* SESSION_TIMEOUT leaves the registry unless a lookup touches it first,
\* however often it is listed.
C36_InfoKeepsAliveListDoesNot ==
    /\ [][/\ (reply'.kind = "info" /\ reply'.resp.success) =>
                 /\ heap'[reply'.sid].lastAccessed = now'
                 /\ reply'.resp.idleTime = <<0>>
          /\ reply'.kind = "list" =>
                 /\ sessions' = sessions
                 /\ \A k \in Ids : heap'[k].lastAccessed = heap[k].lastAccessed
          /\ \A t \in Tasks :
                 /\ SweepCollects(t) =>
                       \A i \in 1..Len(tasks'[t].expiredSessions) :
                           Expired(tasks'[t].expiredSessions[i], now)
                 /\ SweepBeginsDestroy(t) =>
                       \E i \in 1..Len(tasks'[t].expiredSessions) :
                           tasks'[t].expiredSessions[i] = tasks'[t].sid]_vars
    /\ \A k \in Ids :
          ([](Has(sessions, k) => ~Expired(k, now)))
              => ([](\A t \in Tasks : ~(InSweep(t) /\ tasks[t].sid = k)))
    /\ \A k \in Ids :
          (Has(sessions, k) /\ Expired(k, now))
              ~> (~Has(sessions, k) \/ ~Expired(k, now))

\* C36 witness: of two sessions inserted at time 0, one after the other, the
\* first was looked up at time 1 and is in the registry at time 2, and the
\* second has been evicted.
C36_KeptByInfoEvictedBesideIt ==
    /\ now = 2
    /\ sessions = <<1>>
    /\ heap[1].lastAccessed = 1
    /\ Removed(2)
    /\ heap[2].browser = "closed"

\* C37: the content response carries the first min(L, 10000) characters of
\* the page's content (ContentLimit at the model's scale) and contentLength
\* = L, the length of the full content: the content returned is a prefix of
\* the full content and contentLength is at least its length.
C37_ContentTruncatedLengthFull ==
    (reply.kind = "content" /\ reply.resp.success) =>
        LET r == reply.resp IN
        /\ Len(r.content) = Min(Len(doc), ContentLimit)
        /\ r.contentLength = Len(doc)
        /\ r.content = SubSeq(doc, 1, Len(r.content))
        /\ r.contentLength >= Len(r.content)

\* a page longer than the limit was returned cut, its length in full
C37_LongPageReturnedCut ==
    /\ reply.kind = "content" /\ reply.resp.success
    /\ Len(doc) > ContentLimit /\ doc[1] # doc[2]
    /\ Len(reply.resp.content) = ContentLimit
    /\ reply.resp.contentLength = Len(doc)

\* the steps of stop
StopPcs == {"stopTest", "stopPs", "kill", "stopPs2", "kill9", "stopRm", "cleanup"}

\* C38: whatever start, stop and restart commands are run one after the
\* other, at most one browser server started by the script runs; start,
\* when the PID file names a running process, exits with status 1 and
\* starts nothing; when the PID file is stale it removes it and goes on to
\* the launch; stop leaves no PID file, whether the process was running
\* or not.
C38_AtMostOneServer ==
    /\ [](Cardinality(Servers(daemon)) <= 1)
    /\ [](daemon.pc \in {"ps", "rm"} => daemon.PID = daemon.PID_FILE)
    /\ [][/\ (daemon.pc = "ps" /\ daemon'.pc # "ps" /\ Listed(daemon, daemon.PID)) =>
                 /\ daemon'.procs = daemon.procs
                 /\ daemon'.Action = "none"
                 /\ daemon'.status = 1
          /\ (daemon.pc = "ps" /\ daemon'.pc # "ps" /\ ~Listed(daemon, daemon.PID)) =>
                 daemon'.pc = "rm"
          /\ (daemon.pc = "rm" /\ daemon'.pc # "rm") =>
                 /\ daemon'.PID_FILE = 0
                 /\ daemon'.pc = "launch"
          /\ (daemon.pc \in StopPcs /\ daemon'.pc \notin StopPcs) =>
                 daemon'.PID_FILE = 0]_vars

\* a second start was refused next to the server the first one started
C38_StartRefusedBesideServer ==
    /\ daemon.Action = "none" /\ daemon.msg = "AlreadyRunning" /\ daemon.status = 1
    /\ Servers(daemon) = {daemon.PID_FILE}

====
